---- MODULE Spec2Model ----
(***************************************************************************)
(* Storage layer of the fitness tracker: the IStorage contract and its     *)
(* three implementations (MemStorage, SQLiteStorage, DatabaseStorage).     *)
(*                                                                         *)
(* One storage instance is live in a run; `impl` says which.  Every        *)
(* storage method is one action: it reads its inputs from small sets,      *)
(* rewrites `db`, and leaves its arguments and what it returned in `ret`.  *)
(* A method that awaits between two statements is one action per           *)
(* statement; `inflight` holds the calls that are between their two and    *)
(* `reads` the reads that are between their two queries; `unlinked` holds  *)
(* the programs whose links such a call has removed so far.  `createdWith` *)
(* records the position each link was added with.  Where the in-memory     *)
(* and the SQL-backed storage are compared, `db` is the in-memory store    *)
(* and `sql` the store of a SQLiteStorage that is given the same calls.    *)
(* `exerciseLogs` and `exerciseSets` are the state of the WorkoutExecution *)
(* page of the client: the exercise logs its query has fetched and the     *)
(* completed flags of the sets it shows.  `awaiting` holds the requests    *)
(* whose route handler is between two awaited storage calls.               *)
(***************************************************************************)
EXTENDS Integers, Sequences, FiniteSets, TLC

VARIABLES impl, fk, db, ret, inflight, unlinked, reads, createdWith, sql,
          exerciseLogs, exerciseSets, awaiting

\* The state, the name of the last call first: two states that differ in it
\* differ there, and the results of different calls are never compared.
vars == <<ret.op, impl, fk, db, inflight, unlinked, reads, createdWith, sql,
          exerciseLogs, exerciseSets, awaiting, ret>>

-----------------------------------------------------------------------------
(* Bounds and input domains                                                *)

\* Largest identifier a table hands out (caps the id counters).
MaxId == 3

\* Most records the store holds, over all tables, where several tables are
\* exercised together.
MaxRecords == 2

Impls == {"MemStorage", "SQLiteStorage", "DatabaseStorage"}
SqlImpls == {"SQLiteStorage", "DatabaseStorage"}

Users == {1, 2}
Types == {"weight", "bicep"}
Values == {1, 2}
Units == {"kg"}
Dates == {1, 2}

\* The clock's reading when a row is stored without a date: no date of the
\* model is later.
Now == 2

\* The sets the page shows for the current exercise (exercise.sets of them),
\* by index.
MaxSetIndex == 1
SetIndexes == 0..MaxSetIndex

\* An optional argument or field: {} is undefined/absent, {x} is the value x.
Opt(S) == {{}} \cup {{x} : x \in S}

-----------------------------------------------------------------------------
(* Generic helpers                                                         *)

Max(S) == CHOOSE x \in S : \A y \in S : y <= x

Range(s) == {s[i] : i \in DOMAIN s}

\* The rows of a table (a function id -> row) as a set.
Rows(t) == {t[i] : i \in DOMAIN t}

\* The ids of a set in ascending order.
RECURSIVE AscendingSeq(_)
AscendingSeq(S) ==
  IF S = {} THEN <<>>
  ELSE LET m == CHOOSE x \in S : \A y \in S : x <= y
       IN <<m>> \o AscendingSeq(S \ {m})

\* Array.from(map.values()): a Map iterates in insertion order.  Keys are
\* inserted from an increasing counter and Map.set on a present key keeps
\* its position, so insertion order is ascending key order.
MapValues(t) == [i \in 1..Cardinality(DOMAIN t) |-> t[AscendingSeq(DOMAIN t)[i]]]

\* Array.prototype.sort with comparator b[k] - a[k] (desc) or a[k] - b[k]
\* (ascending): a stable sort.
RECURSIVE InsertStable(_, _, _, _)
InsertStable(sorted, x, k, desc) ==
  IF sorted = <<>> THEN <<x>>
  ELSE LET h == Head(sorted)
           hFirst == IF desc THEN h[k] >= x[k] ELSE h[k] <= x[k]
       IN IF hFirst THEN <<h>> \o InsertStable(Tail(sorted), x, k, desc)
          ELSE <<x>> \o sorted

RECURSIVE StableSort(_, _, _)
StableSort(s, k, desc) ==
  IF s = <<>> THEN <<>>
  ELSE InsertStable(StableSort(SubSeq(s, 1, Len(s) - 1), k, desc), s[Len(s)], k, desc)

\* SELECT ... ORDER BY k [DESC]: every ordering of the selected rows that is
\* sorted on k; SQL leaves the order of rows with equal keys open.
OrderBy(S, k, desc) ==
  {s \in [1..Cardinality(S) -> S] :
     /\ \A i, j \in DOMAIN s : i # j => s[i] # s[j]
     /\ \A i, j \in DOMAIN s :
          i < j => IF desc THEN s[i][k] >= s[j][k] ELSE s[i][k] <= s[j][k]}

\* The orders an array of the rows s can come back in when nothing fixes the
\* order.
AnyOrder(s) ==
  {[i \in DOMAIN s |-> s[f[i]]] : f \in Permutations(DOMAIN s)}

\* .sort((a, b) => new Date(b.date).getTime() - new Date(a.date).getTime()):
\* a record without a date makes the comparator NaN, which sort takes as 0.
\* With a date on every record this is the stable sort, newest first.  When
\* the records that have a date all have the same one the comparator is
\* constantly 0 and the array stays as it is; otherwise the comparator is
\* inconsistent and the resulting order is implementation-defined.
SortByDate(s) ==
  IF \A i \in DOMAIN s : "date" \in DOMAIN s[i] THEN {StableSort(s, "date", TRUE)}
  ELSE IF \A i, j \in DOMAIN s :
            "date" \in DOMAIN s[i] /\ "date" \in DOMAIN s[j] => s[i].date = s[j].date
       THEN {s}
       ELSE AnyOrder(s)

\* { ...a, ...b }
Spread(a, b) ==
  [k \in DOMAIN a \cup DOMAIN b |-> IF k \in DOMAIN b THEN b[k] ELSE a[k]]

\* Remove key i from a Map / delete row i from a table.
Without(t, i) == [j \in DOMAIN t \ {i} |-> t[j]]

\* Add or replace the entry of key i.
With(t, i, row) == [j \in DOMAIN t \cup {i} |-> IF j = i THEN row ELSE t[j]]

-----------------------------------------------------------------------------
(* Field names and the camelCase -> snake_case mapper                      *)

\* The identifiers the model uses, spelled out character by character.
Spell ==
    [id |-> <<"i", "d">>,
     userId |-> <<"u", "s", "e", "r", "I", "d">>,
     user_id |-> <<"u", "s", "e", "r", "_", "i", "d">>,
     type |-> <<"t", "y", "p", "e">>,
     value |-> <<"v", "a", "l", "u", "e">>,
     unit |-> <<"u", "n", "i", "t">>,
     date |-> <<"d", "a", "t", "e">>,
     workoutProgramId |-> <<"w", "o", "r", "k", "o", "u", "t", "P", "r", "o", "g", "r", "a", "m", "I", "d">>,
     workout_program_id |-> <<"w", "o", "r", "k", "o", "u", "t", "_", "p", "r", "o", "g", "r", "a", "m", "_", "i", "d">>,
     exerciseId |-> <<"e", "x", "e", "r", "c", "i", "s", "e", "I", "d">>,
     exercise_id |-> <<"e", "x", "e", "r", "c", "i", "s", "e", "_", "i", "d">>,
     sets |-> <<"s", "e", "t", "s">>,
     reps |-> <<"r", "e", "p", "s">>,
     duration |-> <<"d", "u", "r", "a", "t", "i", "o", "n">>,
     order |-> <<"o", "r", "d", "e", "r">>,
     sequence |-> <<"s", "e", "q", "u", "e", "n", "c", "e">>,
     name |-> <<"n", "a", "m", "e">>,
     relatedMeasurementId |-> <<"r", "e", "l", "a", "t", "e", "d", "M", "e", "a", "s", "u", "r", "e", "m", "e", "n", "t", "I", "d">>,
     related_measurement_id |-> <<"r", "e", "l", "a", "t", "e", "d", "_", "m", "e", "a", "s", "u", "r", "e", "m", "e", "n", "t", "_", "i", "d">>,
     photoUrl |-> <<"p", "h", "o", "t", "o", "U", "r", "l">>,
     photo_url |-> <<"p", "h", "o", "t", "o", "_", "u", "r", "l">>,
     workoutLogId |-> <<"w", "o", "r", "k", "o", "u", "t", "L", "o", "g", "I", "d">>,
     workout_log_id |-> <<"w", "o", "r", "k", "o", "u", "t", "_", "l", "o", "g", "_", "i", "d">>,
     setNumber |-> <<"s", "e", "t", "N", "u", "m", "b", "e", "r">>,
     set_number |-> <<"s", "e", "t", "_", "n", "u", "m", "b", "e", "r">>,
     completed |-> <<"c", "o", "m", "p", "l", "e", "t", "e", "d">>,
     weight |-> <<"w", "e", "i", "g", "h", "t">>]

\* String.prototype.toLowerCase, letter by letter.
LowerCase == [A |-> "a", B |-> "b", C |-> "c", D |-> "d", E |-> "e", F |-> "f", G |-> "g", H |-> "h", I |-> "i", J |-> "j", K |-> "k", L |-> "l", M |-> "m", N |-> "n", O |-> "o", P |-> "p", Q |-> "q", R |-> "r", S |-> "s", T |-> "t", U |-> "u", V |-> "v", W |-> "w", X |-> "x", Y |-> "y", Z |-> "z"]

IsUpper(c) == c \in DOMAIN LowerCase

\* The mapper without toLowerCase(): str.replace(/([A-Z])/g, "_$1").
RECURSIVE toSnakeCase_KeepingCase(_)
toSnakeCase_KeepingCase(str) ==
  IF str = <<>> THEN <<>>
  ELSE LET c == Head(str)
       IN (IF IsUpper(c) THEN <<"_", c>> ELSE <<c>>) \o toSnakeCase_KeepingCase(Tail(str))

\* str.replace(/([A-Z])/g, "_$1").toLowerCase()
RECURSIVE toSnakeCase(_)
toSnakeCase(str) ==
  IF str = <<>> THEN <<>>
  ELSE LET c == Head(str)
       IN (IF IsUpper(c) THEN <<"_", LowerCase[c]>> ELSE <<c>>) \o toSnakeCase(Tail(str))

\* The identifier a character sequence spells ("?" when it is none the
\* model knows).
Unspell(chars) ==
  IF \E n \in DOMAIN Spell : Spell[n] = chars
  THEN CHOOSE n \in DOMAIN Spell : Spell[n] = chars
  ELSE "?"

\* this.toSnakeCase(key) on a field name.
SnakeKey(key) == Unspell(toSnakeCase(Spell[key]))

-----------------------------------------------------------------------------
(* What a storage call hands back                                          *)

Value(v) == [kind |-> "value", val |-> v]
Undefined == [kind |-> "undefined"]
Thrown == [kind |-> "throw"]

\* The store after a call together with what the call returned.
Outcome(d, r) == [db |-> d, res |-> r]

-----------------------------------------------------------------------------
(* The store                                                               *)

\* initializeExercises / the seeding in db.ts: the catalog starts with this
\* many exercises, ids 1..NumDefaultExercises.
NumDefaultExercises == 15

EmptyTable == [i \in {} |-> {}]

\* The state after construction: the default user, the seeded catalog,
\* every other table empty, every id counter at 1.  idCounter[t] is the id
\* the next insert into t gets (MemStorage's xIdCounter; for the SQL
\* stores one more than the table's AUTOINCREMENT / serial sequence).
InitialStore ==
  [users |-> {1},
   exercises |-> 1..NumDefaultExercises,
   measurements |-> EmptyTable,
   progressPhotos |-> EmptyTable,
   workoutPrograms |-> EmptyTable,
   workoutExercises |-> EmptyTable,
   workoutLogs |-> EmptyTable,
   exerciseLogs |-> EmptyTable,
   idCounter |-> [measurements |-> 1, progressPhotos |-> 1, workoutPrograms |-> 1,
                  workoutExercises |-> 1, workoutLogs |-> 1, exerciseLogs |-> 1]]

\* The ids a table holds.
Ids(d, table) ==
  IF table = "users" THEN d.users
  ELSE IF table = "exercises" THEN d.exercises
  ELSE DOMAIN d[table]

\* The FOREIGN KEY clauses of db.ts: for each table its <<column, parent>>
\* pairs.
ForeignKeys ==
  [measurements |-> {<<"user_id", "users">>},
   workoutPrograms |-> {<<"user_id", "users">>},
   workoutExercises |-> {<<"workout_program_id", "workoutPrograms">>,
                         <<"exercise_id", "exercises">>},
   workoutLogs |-> {<<"user_id", "users">>, <<"workout_program_id", "workoutPrograms">>},
   exerciseLogs |-> {<<"workout_log_id", "workoutLogs">>, <<"exercise_id", "exercises">>},
   progressPhotos |-> {<<"user_id", "users">>, <<"related_measurement_id", "measurements">>}]

\* The columns that may hold NULL among the referencing ones; they hold {}
\* for NULL and {id} for a reference.
NullableReferences == {"related_measurement_id"}

\* db.ts declares the FOREIGN KEY clauses and never sets PRAGMA foreign_keys,
\* so whether SQLiteStorage's statements are checked against them is a
\* property of the driver build: `fk` is that property.  A violated
\* constraint makes the statement throw and change nothing.
\* An INSERT or UPDATE that leaves `row` in `table`:
FkViolated(d, table, row) ==
  fk /\ \E ref \in ForeignKeys[table] :
          /\ ref[1] \in DOMAIN row
          /\ IF ref[1] \in NullableReferences
             THEN ~(row[ref[1]] \subseteq Ids(d, ref[2]))
             ELSE row[ref[1]] \notin Ids(d, ref[2])

\* A DELETE of row `id` of `table` while a row of another table refers to it.
FkReferenced(d, table, id) ==
  fk /\ \E t \in DOMAIN ForeignKeys : \E ref \in ForeignKeys[t] :
          /\ ref[2] = table
          /\ \E r \in Rows(d[t]) :
               IF ref[1] \in NullableReferences THEN r[ref[1]] = {id} ELSE r[ref[1]] = id

-----------------------------------------------------------------------------
(* Values shared by the remaining tables                                   *)

\* null / undefined in a field that may hold one: such a field holds {} or
\* {v}.
Null == {}

\* x || null on a field that may be missing from the input.
OrNull(input, key) ==
  IF key \in DOMAIN input /\ input[key] # {0} THEN input[key] ELSE Null

\* x || null on a text field.
TextOrNull(input, key) ==
  IF key \in DOMAIN input /\ input[key] # {""} THEN input[key] ELSE Null

\* x !== undefined ? x : null
DefinedOrNull(input, key) == IF key \in DOMAIN input THEN input[key] ELSE Null

\* The `completed` flag is held by its JSON spelling: the booleans "true" and
\* "false", the integers "1" and "0" of a BOOLEAN column of SQLite.
Truthy(v) == v \in {"true", "1"}
IsBoolean(v) == v \in {"true", "false"}

\* The columns shared/schema.ts gives each table (property names).
SchemaColumns ==
  [measurements |-> {"id", "userId", "type", "value", "unit", "date"},
   workoutPrograms |-> {"id", "userId", "name", "description", "colorScheme",
                        "estimatedDuration"},
   workoutExercises |-> {"id", "workoutProgramId", "exerciseId", "sets", "reps",
                         "duration", "sequence"},
   workoutLogs |-> {"id", "userId", "workoutProgramId", "date", "completed"},
   exerciseLogs |-> {"id", "workoutLogId", "exerciseId", "setNumber", "reps", "weight",
                     "duration", "completed"},
   progressPhotos |-> {"id", "userId", "photoUrl", "category", "date", "notes",
                       "relatedMeasurementId"}]

\* The entries of `values` the query builder has a column for; it passes
\* over the others.
Known(table, values) ==
  [k \in DOMAIN values \cap SchemaColumns[table] |-> values[k]]

-----------------------------------------------------------------------------
(* Measurements: MemStorage                                                *)

\* The arrays the method can return.
MemStorage_getMeasurements(d, userId, type) ==
  {IF type # {} THEN SelectSeq(userMeasurements, LAMBDA m : {m.type} = type)
   ELSE userMeasurements
   : userMeasurements \in
       SortByDate(SelectSeq(MapValues(d.measurements), LAMBDA m : m.userId = userId))}

MemStorage_getMeasurement(d, id) ==
  IF id \in DOMAIN d.measurements THEN Value(d.measurements[id]) ELSE Undefined

MemStorage_getMeasurementsWithChange(d, userId, type) ==
  {[index \in 1..Len(measurements) |->
      IF index = Len(measurements)
      THEN Spread(measurements[index], [change |-> {}])
      ELSE Spread(measurements[index],
                  [change |-> {measurements[index].value - measurements[index + 1].value}])]
   : measurements \in MemStorage_getMeasurements(d, userId, type)}

MemStorage_createMeasurement(d, insertMeasurement) ==
  LET id == d.idCounter.measurements
      measurement == Spread(insertMeasurement, [id |-> id])
  IN Outcome([d EXCEPT !.idCounter.measurements = id + 1,
                       !.measurements = With(@, id, measurement)],
             Value(measurement))

MemStorage_updateMeasurement(d, id, measurementUpdate) ==
  IF id \notin DOMAIN d.measurements THEN Outcome(d, Undefined)
  ELSE LET updatedMeasurement == Spread(d.measurements[id], measurementUpdate)
       IN Outcome([d EXCEPT !.measurements = With(@, id, updatedMeasurement)],
                  Value(updatedMeasurement))

\* deleteMeasurement that takes the photos of the measurement with it.
MemStorage_deleteMeasurement_Cascade(d, id) ==
  LET kept == {p \in DOMAIN d.progressPhotos : d.progressPhotos[p].relatedMeasurementId # {id}}
  IN Outcome([d EXCEPT !.measurements = Without(@, id),
                       !.progressPhotos = [p \in kept |-> d.progressPhotos[p]]],
             Value(id \in DOMAIN d.measurements))

MemStorage_deleteMeasurement(d, id) ==
  Outcome([d EXCEPT !.measurements = Without(@, id)], Value(id \in DOMAIN d.measurements))

-----------------------------------------------------------------------------
(* Measurements: SQLiteStorage                                             *)

\* CREATE TABLE measurements
MeasurementColumns == {"id", "user_id", "type", "value", "unit", "date"}

\* "SELECT * FROM measurements WHERE user_id = ? [AND type = ?] ORDER BY date
\* DESC": the set of row orders the statement can return.
SQLiteStorage_getMeasurements(d, userId, type) ==
  OrderBy({m \in Rows(d.measurements) :
             m.user_id = userId /\ (type = {} \/ {m.type} = type)},
          "date", TRUE)

SQLiteStorage_getMeasurement(d, id) ==
  IF id \in DOMAIN d.measurements THEN Value(d.measurements[id]) ELSE Undefined

\* The keys of measurementsByType in the order Object.values walks them: the
\* order in which each type first occurs.
RECURSIVE TypesInOrder(_)
TypesInOrder(measurements) ==
  IF measurements = <<>> THEN <<>>
  ELSE LET rest == TypesInOrder(SubSeq(measurements, 1, Len(measurements) - 1))
           t == measurements[Len(measurements)].type
       IN IF t \in Range(rest) THEN rest ELSE Append(rest, t)

\* ChangesWithinType with result.push moved inside the `if`: the last record
\* of a type is never pushed.
ChangesWithinType_PushInsideIf(measurements) ==
  LET sorted == StableSort(measurements, "date", TRUE)
  IN [index \in 1..(Len(sorted) - 1) |->
        Spread(sorted[index],
               [change |-> {sorted[index].value - sorted[index + 1].value}])]

\* One type's measurements, newest first, each with its change against the
\* next one of the list.
ChangesWithinType(measurements) ==
  LET sorted == StableSort(measurements, "date", TRUE)
  IN [index \in 1..Len(sorted) |->
        Spread(sorted[index],
               [change |-> IF index < Len(sorted)
                           THEN {sorted[index].value - sorted[index + 1].value}
                           ELSE {}])]

RECURSIVE PushAll(_, _, _)
PushAll(measurements, types, n) ==
  IF n = 0 THEN <<>>
  ELSE PushAll(measurements, types, n - 1)
       \o ChangesWithinType(SelectSeq(measurements, LAMBDA m : m.type = types[n]))

\* The body of getMeasurementsWithChange after the read: group by type,
\* compute the changes per type, sort the whole result newest first.
GroupedChanges(measurements) ==
  LET types == TypesInOrder(measurements)
  IN StableSort(PushAll(measurements, types, Len(types)), "date", TRUE)

SQLiteStorage_getMeasurementsWithChange(d, userId, type) ==
  {GroupedChanges(measurements) :
     measurements \in SQLiteStorage_getMeasurements(d, userId, type)}

\* Without insertMeasurement.date the date column is left to its DEFAULT
\* CURRENT_TIMESTAMP.
SQLiteStorage_createMeasurement(d, insertMeasurement) ==
  LET id == d.idCounter.measurements
      result == [id |-> id,
                 user_id |-> insertMeasurement.userId,
                 type |-> insertMeasurement.type,
                 value |-> insertMeasurement.value,
                 unit |-> insertMeasurement.unit,
                 date |-> IF "date" \in DOMAIN insertMeasurement
                          THEN insertMeasurement.date ELSE Now]
  IN IF FkViolated(d, "measurements", result) THEN Outcome(d, Thrown)
     ELSE Outcome([d EXCEPT !.idCounter.measurements = id + 1,
                            !.measurements = With(@, id, result)],
                  Value(result))

\* The SET list the update methods build: every key but id, its column name
\* from toSnakeCase, bound to the key's value.
UpdateParts(update) ==
  LET keys == DOMAIN update \ {"id"}
  IN [c \in {SnakeKey(k) : k \in keys} |->
        update[CHOOSE k \in keys : SnakeKey(k) = c]]

\* "UPDATE <table> SET <updateParts> WHERE id = ? RETURNING *" behind the
\* method's guards: no row -> undefined; nothing to set -> the current row;
\* a column the table does not have, or a violated constraint -> the
\* statement throws.
UpdateWhereId(d, table, columns, id, updateParts) ==
  IF id \notin DOMAIN d[table] THEN Outcome(d, Undefined)
  ELSE IF DOMAIN updateParts = {} THEN Outcome(d, Value(d[table][id]))
  ELSE IF ~(DOMAIN updateParts \subseteq columns) THEN Outcome(d, Thrown)
  ELSE LET result == Spread(d[table][id], updateParts)
       IN IF FkViolated(d, table, result) THEN Outcome(d, Thrown)
          ELSE Outcome([d EXCEPT ![table] = With(@, id, result)], Value(result))

SQLiteStorage_updateMeasurement(d, id, measurementUpdate) ==
  UpdateWhereId(d, "measurements", MeasurementColumns, id, UpdateParts(measurementUpdate))

\* "DELETE FROM measurements WHERE id = ? RETURNING id"; progress_photos
\* declares related_measurement_id REFERENCES measurements(id).
SQLiteStorage_deleteMeasurement(d, id) ==
  IF id \notin DOMAIN d.measurements THEN Outcome(d, Value(FALSE))
  ELSE IF FkReferenced(d, "measurements", id) THEN Outcome(d, Thrown)
  ELSE Outcome([d EXCEPT !.measurements = Without(@, id)], Value(TRUE))

-----------------------------------------------------------------------------
(* Measurements: DatabaseStorage (query builder over the tables of         *)
(* shared/schema.ts, which declare no foreign key).  Rows are held under   *)
(* the schema's property names.                                            *)

\* select().from(measurements).where(userId)[.where(type)].orderBy(desc(date)):
\* the two where() calls are taken as one conjunction.
DatabaseStorage_getMeasurements(d, userId, type) ==
  OrderBy({m \in Rows(d.measurements) :
             m.userId = userId /\ (type = {} \/ {m.type} = type)},
          "date", TRUE)

DatabaseStorage_getMeasurement(d, id) ==
  IF id \in DOMAIN d.measurements THEN Value(d.measurements[id]) ELSE Undefined

DatabaseStorage_getMeasurementsWithChange(d, userId, type) ==
  {GroupedChanges(allMeasurements) :
     allMeasurements \in DatabaseStorage_getMeasurements(d, userId, type)}

\* insert(table).values(values).returning(): the id comes from the table's
\* serial sequence, which advances even when the id is already taken (by a
\* row an update moved there) and the insert fails on the primary key.
InsertReturning(d, table, values) ==
  LET id == d.idCounter[table]
      result == Spread(Known(table, values), [id |-> id])
  IN IF id \in DOMAIN d[table]
     THEN Outcome([d EXCEPT !.idCounter[table] = id + 1], Thrown)
     ELSE Outcome([d EXCEPT !.idCounter[table] = id + 1,
                            ![table] = With(@, id, result)],
                  Value(result))

\* date: timestamp("date").defaultNow()
DatabaseStorage_createMeasurement(d, insertMeasurement) ==
  InsertReturning(d, "measurements", Spread([date |-> Now], insertMeasurement))

\* update(table).set(values).where(eq(table.id, id)).returning(): every key of
\* `values` that names a column is assigned, id included; with no such key
\* there is nothing to set and the statement is refused.  A changed id that collides
\* with another row violates the primary key.
SetWhereId(d, table, id, values) ==
  IF DOMAIN Known(table, values) = {} THEN Outcome(d, Thrown)
  ELSE IF id \notin DOMAIN d[table] THEN Outcome(d, Undefined)
  ELSE LET result == Spread(d[table][id], Known(table, values))
       IN IF result.id # id /\ result.id \in DOMAIN d[table] THEN Outcome(d, Thrown)
          ELSE Outcome([d EXCEPT ![table] = With(Without(@, id), result.id, result)],
                       Value(result))

DatabaseStorage_updateMeasurement(d, id, measurementUpdate) ==
  SetWhereId(d, "measurements", id, measurementUpdate)

DatabaseStorage_deleteMeasurement(d, id) ==
  Outcome([d EXCEPT !.measurements = Without(@, id)], Value(id \in DOMAIN d.measurements))

-----------------------------------------------------------------------------
(* Workout programs                                                        *)

MemStorage_getWorkoutProgram(d, id) ==
  IF id \in DOMAIN d.workoutPrograms THEN Value(d.workoutPrograms[id]) ELSE Undefined

MemStorage_createWorkoutProgram(d, insertProgram) ==
  LET id == d.idCounter.workoutPrograms
      program == Spread(insertProgram,
                        [id |-> id,
                         description |-> OrNull(insertProgram, "description"),
                         colorScheme |-> IF "colorScheme" \in DOMAIN insertProgram
                                         THEN insertProgram.colorScheme ELSE "primary",
                         estimatedDuration |-> OrNull(insertProgram, "estimatedDuration")])
  IN Outcome([d EXCEPT !.idCounter.workoutPrograms = id + 1,
                       !.workoutPrograms = With(@, id, program)],
             Value(program))

MemStorage_updateWorkoutProgram(d, id, programUpdate) ==
  IF id \notin DOMAIN d.workoutPrograms THEN Outcome(d, Undefined)
  ELSE LET updatedProgram == Spread(d.workoutPrograms[id], programUpdate)
       IN Outcome([d EXCEPT !.workoutPrograms = With(@, id, updatedProgram)],
                  Value(updatedProgram))

\* The loop deletes the entry whose KEY is we.id, for every link we whose
\* workoutProgramId is id.
MemStorage_deleteWorkoutProgram(d, id) ==
  LET workoutExercises == {we \in Rows(d.workoutExercises) : we.workoutProgramId = id}
      remaining == DOMAIN d.workoutExercises \ {we.id : we \in workoutExercises}
  IN Outcome([d EXCEPT !.workoutExercises = [j \in remaining |-> d.workoutExercises[j]],
                       !.workoutPrograms = Without(@, id)],
             Value(id \in DOMAIN d.workoutPrograms))

WorkoutProgramColumns ==
  {"id", "user_id", "name", "description", "color_scheme", "estimated_duration"}

SQLiteStorage_getWorkoutProgram(d, id) ==
  IF id \in DOMAIN d.workoutPrograms THEN Value(d.workoutPrograms[id]) ELSE Undefined

SQLiteStorage_createWorkoutProgram(d, insertProgram) ==
  LET id == d.idCounter.workoutPrograms
      result == [id |-> id,
                 user_id |-> insertProgram.userId,
                 name |-> insertProgram.name,
                 description |-> OrNull(insertProgram, "description"),
                 color_scheme |-> IF "colorScheme" \in DOMAIN insertProgram
                                  THEN insertProgram.colorScheme ELSE "primary",
                 estimated_duration |-> OrNull(insertProgram, "estimatedDuration")]
  IN IF FkViolated(d, "workoutPrograms", result) THEN Outcome(d, Thrown)
     ELSE Outcome([d EXCEPT !.idCounter.workoutPrograms = id + 1,
                            !.workoutPrograms = With(@, id, result)],
                  Value(result))

SQLiteStorage_updateWorkoutProgram(d, id, programUpdate) ==
  UpdateWhereId(d, "workoutPrograms", WorkoutProgramColumns, id, UpdateParts(programUpdate))

\* Two statements and no transaction: the links are gone when the second
\* statement throws.
SQLiteStorage_deleteWorkoutProgram(d, id) ==
  LET afterLinks ==
        [d EXCEPT !.workoutExercises =
           [j \in {i \in DOMAIN @ : @[i].workout_program_id # id} |-> @[j]]]
  IN IF id \notin DOMAIN d.workoutPrograms THEN Outcome(afterLinks, Value(FALSE))
     ELSE IF FkReferenced(afterLinks, "workoutPrograms", id) THEN Outcome(afterLinks, Thrown)
     ELSE Outcome([afterLinks EXCEPT !.workoutPrograms = Without(@, id)], Value(TRUE))

DatabaseStorage_getWorkoutProgram(d, id) ==
  IF id \in DOMAIN d.workoutPrograms THEN Value(d.workoutPrograms[id]) ELSE Undefined

DatabaseStorage_createWorkoutProgram(d, insertProgram) ==
  InsertReturning(d, "workoutPrograms",
                  Spread(insertProgram,
                         [description |-> OrNull(insertProgram, "description"),
                          colorScheme |-> IF "colorScheme" \in DOMAIN insertProgram
                                          THEN insertProgram.colorScheme ELSE "primary",
                          estimatedDuration |-> OrNull(insertProgram, "estimatedDuration")]))

DatabaseStorage_updateWorkoutProgram(d, id, programUpdate) ==
  SetWhereId(d, "workoutPrograms", id, programUpdate)

\* await db.delete(workoutExercises).where(workoutProgramId = id): the first
\* of the two awaited statements.
DatabaseStorage_deleteWorkoutProgram_Links(d, id) ==
  [d EXCEPT !.workoutExercises =
     [j \in {i \in DOMAIN @ : @[i].workoutProgramId # id} |-> @[j]]]

\* await db.delete(workoutPrograms).where(id = id).returning(): the second.
DatabaseStorage_deleteWorkoutProgram_Program(d, id) ==
  Outcome([d EXCEPT !.workoutPrograms = Without(@, id)],
          Value(id \in DOMAIN d.workoutPrograms))

-----------------------------------------------------------------------------
(* Workout exercises: the links between a program and the catalog          *)

MemStorage_addExerciseToWorkout(d, insertWorkoutExercise) ==
  LET id == d.idCounter.workoutExercises
      workoutExercise == Spread(insertWorkoutExercise,
                                [id |-> id,
                                 sets |-> OrNull(insertWorkoutExercise, "sets"),
                                 reps |-> OrNull(insertWorkoutExercise, "reps"),
                                 duration |-> OrNull(insertWorkoutExercise, "duration")])
  IN Outcome([d EXCEPT !.idCounter.workoutExercises = id + 1,
                       !.workoutExercises = With(@, id, workoutExercise)],
             Value(workoutExercise))

\* An update that stores the mapping in place of the record.
MemStorage_updateWorkoutExercise_Replace(d, id, update) ==
  IF id \notin DOMAIN d.workoutExercises THEN Outcome(d, Undefined)
  ELSE LET updatedWorkoutExercise == Spread([id |-> id], update)
       IN Outcome([d EXCEPT !.workoutExercises = With(@, id, updatedWorkoutExercise)],
                  Value(updatedWorkoutExercise))

MemStorage_updateWorkoutExercise(d, id, update) ==
  IF id \notin DOMAIN d.workoutExercises THEN Outcome(d, Undefined)
  ELSE LET updatedWorkoutExercise == Spread(d.workoutExercises[id], update)
       IN Outcome([d EXCEPT !.workoutExercises = With(@, id, updatedWorkoutExercise)],
                  Value(updatedWorkoutExercise))

MemStorage_removeExerciseFromWorkout(d, id) ==
  Outcome([d EXCEPT !.workoutExercises = Without(@, id)],
          Value(id \in DOMAIN d.workoutExercises))

WorkoutExerciseColumns ==
  {"id", "workout_program_id", "exercise_id", "sets", "reps", "duration", "order"}

SQLiteStorage_addExerciseToWorkout(d, insertWorkoutExercise) ==
  LET id == d.idCounter.workoutExercises
      result == [id |-> id,
                 workout_program_id |-> insertWorkoutExercise.workoutProgramId,
                 exercise_id |-> insertWorkoutExercise.exerciseId,
                 order |-> IF "order" \in DOMAIN insertWorkoutExercise
                              /\ insertWorkoutExercise.order # 0
                           THEN insertWorkoutExercise.order ELSE 1,
                 sets |-> DefinedOrNull(insertWorkoutExercise, "sets"),
                 reps |-> DefinedOrNull(insertWorkoutExercise, "reps"),
                 duration |-> DefinedOrNull(insertWorkoutExercise, "duration")]
  IN IF insertWorkoutExercise.workoutProgramId = 0 THEN Outcome(d, Thrown)
     ELSE IF FkViolated(d, "workoutExercises", result) THEN Outcome(d, Thrown)
     ELSE Outcome([d EXCEPT !.idCounter.workoutExercises = id + 1,
                            !.workoutExercises = With(@, id, result)],
                  Value(result))

\* The SET list of updateWorkoutExercise: "order" is quoted, every other key
\* but id goes through toSnakeCase.
WorkoutExerciseUpdateParts(update) ==
  LET keys == DOMAIN update \ {"id"}
      column(k) == IF k = "order" THEN "order" ELSE SnakeKey(k)
  IN [c \in {column(k) : k \in keys} |-> update[CHOOSE k \in keys : column(k) = c]]

SQLiteStorage_updateWorkoutExercise(d, id, update) ==
  UpdateWhereId(d, "workoutExercises", WorkoutExerciseColumns, id,
                WorkoutExerciseUpdateParts(update))

SQLiteStorage_removeExerciseFromWorkout(d, id) ==
  IF id \notin DOMAIN d.workoutExercises THEN Outcome(d, Value(FALSE))
  ELSE IF FkReferenced(d, "workoutExercises", id) THEN Outcome(d, Thrown)
  ELSE Outcome([d EXCEPT !.workoutExercises = Without(@, id)], Value(TRUE))

DatabaseStorage_addExerciseToWorkout(d, insertWorkoutExercise) ==
  InsertReturning(d, "workoutExercises",
                  Spread(insertWorkoutExercise,
                         [sets |-> OrNull(insertWorkoutExercise, "sets"),
                          reps |-> OrNull(insertWorkoutExercise, "reps"),
                          duration |-> OrNull(insertWorkoutExercise, "duration")]))

DatabaseStorage_updateWorkoutExercise(d, id, update) ==
  SetWhereId(d, "workoutExercises", id, update)

DatabaseStorage_removeExerciseFromWorkout(d, id) ==
  Outcome([d EXCEPT !.workoutExercises = Without(@, id)],
          Value(id \in DOMAIN d.workoutExercises))

\* .sort((a, b) => a.order - b.order): a row without an order property makes
\* the comparator NaN, which sort takes as 0.  With no order anywhere the
\* comparator is constantly 0 and the stable sort keeps the array as it is;
\* with order on some rows only the comparator is inconsistent and the
\* resulting order is implementation-defined.
SortByOrder(s) ==
  IF \A i \in DOMAIN s : "order" \in DOMAIN s[i] THEN {StableSort(s, "order", FALSE)}
  ELSE IF \A i \in DOMAIN s : "order" \notin DOMAIN s[i] THEN {s}
  ELSE AnyOrder(s)

\* The catalog entry of an exercise is modelled by its id.
MemStorage_getWorkoutExercises(d, workoutProgramId) ==
  LET filtered == SelectSeq(MapValues(d.workoutExercises),
                            LAMBDA we : we.workoutProgramId = workoutProgramId)
  IN {IF \E i \in DOMAIN workoutExercises : workoutExercises[i].exerciseId \notin d.exercises
      THEN Thrown
      ELSE Value([i \in DOMAIN workoutExercises |->
                    Spread(workoutExercises[i],
                           [exercise |-> workoutExercises[i].exerciseId])])
      : workoutExercises \in SortByOrder(filtered)}

MemStorage_getWorkoutProgramWithExercises(d, id) ==
  IF id \notin DOMAIN d.workoutPrograms THEN {Undefined}
  ELSE {IF exercises.kind = "throw" THEN Thrown
        ELSE Value(Spread(d.workoutPrograms[id], [exercises |-> exercises.val]))
        : exercises \in MemStorage_getWorkoutExercises(d, id)}

SQLiteStorage_getWorkoutExercises(d, workoutProgramId) ==
  LET joined == {we \in Rows(d.workoutExercises) :
                   /\ we.exercise_id \in d.exercises
                   /\ we.workout_program_id = workoutProgramId}
  IN {Value([i \in DOMAIN results |->
               LET row == results[i]
               IN [id |-> row.id,
                   workoutProgramId |-> row.workout_program_id,
                   exerciseId |-> row.exercise_id,
                   sets |-> row.sets,
                   reps |-> row.reps,
                   duration |-> row.duration,
                   order |-> row.order,
                   exercise |-> row.exercise_id]])
      : results \in OrderBy(joined, "order", FALSE)}

SQLiteStorage_getWorkoutProgramWithExercises(d, id) ==
  IF id \notin DOMAIN d.workoutPrograms THEN {Undefined}
  ELSE {Value(Spread(d.workoutPrograms[id], [exercises |-> exercises.val]))
        : exercises \in SQLiteStorage_getWorkoutExercises(d, id)}

\* .orderBy(asc(workoutExercises.order)): the table object has no order
\* column, so the ORDER BY is built from undefined.  The query then either
\* fails or runs without a usable sort key.
DatabaseStorage_getWorkoutExercises(d, workoutProgramId) ==
  LET joined == {we \in Rows(d.workoutExercises) :
                   /\ we.exerciseId \in d.exercises
                   /\ we.workoutProgramId = workoutProgramId}
      rows == [i \in 1..Cardinality(joined) |->
                 CHOOSE we \in joined :
                   Cardinality({o \in joined : o.id < we.id}) = i - 1]
  IN {Thrown} \cup
     {Value([i \in DOMAIN results |->
               Spread(results[i], [exercise |-> results[i].exerciseId])])
      : results \in AnyOrder(rows)}

\* getWorkoutProgramWithExercises from the program it has read to its return:
\* the links are read in a second awaited query.
DatabaseStorage_getWorkoutProgramWithExercises_Exercises(d, id, program) ==
  {IF workoutExercisesData.kind = "throw" THEN Thrown
   ELSE Value(Spread(program, [exercises |-> workoutExercisesData.val]))
   : workoutExercisesData \in DatabaseStorage_getWorkoutExercises(d, id)}

-----------------------------------------------------------------------------
(* Workout logs and exercise logs                                          *)

MemStorage_createWorkoutLog(d, insertLog) ==
  LET id == d.idCounter.workoutLogs
      log == Spread(insertLog, [id |-> id])
  IN Outcome([d EXCEPT !.idCounter.workoutLogs = id + 1,
                       !.workoutLogs = With(@, id, log)],
             Value(log))

\* insertLog always carries its date here; `completed` is written as 1 or 0
\* when it is given and defaults to 0.
SQLiteStorage_createWorkoutLog(d, insertLog) ==
  LET id == d.idCounter.workoutLogs
      result == [id |-> id,
                 user_id |-> insertLog.userId,
                 workout_program_id |-> insertLog.workoutProgramId,
                 date |-> insertLog.date,
                 completed |-> IF "completed" \in DOMAIN insertLog
                                  /\ Truthy(insertLog.completed)
                               THEN "1" ELSE "0"]
  IN IF FkViolated(d, "workoutLogs", result) THEN Outcome(d, Thrown)
     ELSE Outcome([d EXCEPT !.idCounter.workoutLogs = id + 1,
                            !.workoutLogs = With(@, id, result)],
                  Value(result))

DatabaseStorage_createWorkoutLog(d, insertLog) ==
  InsertReturning(d, "workoutLogs",
                  Spread([completed |-> "false"], insertLog))

\* A complete action that stores a new record of the log: its id and the
\* flag.
MemStorage_completeWorkoutLog_Rewrite(d, id) ==
  IF id \notin DOMAIN d.workoutLogs THEN Outcome(d, Undefined)
  ELSE LET updatedLog == [id |-> id, completed |-> "true"]
       IN Outcome([d EXCEPT !.workoutLogs = With(@, id, updatedLog)], Value(updatedLog))

\* A complete action that flips the flag instead of setting it.
MemStorage_completeWorkoutLog_Toggle(d, id) ==
  IF id \notin DOMAIN d.workoutLogs THEN Outcome(d, Undefined)
  ELSE LET log == d.workoutLogs[id]
           updatedLog == Spread(log, [completed |->
                                        IF "completed" \in DOMAIN log /\ Truthy(log.completed)
                                        THEN "false" ELSE "true"])
       IN Outcome([d EXCEPT !.workoutLogs = With(@, id, updatedLog)], Value(updatedLog))

MemStorage_completeWorkoutLog(d, id) ==
  IF id \notin DOMAIN d.workoutLogs THEN Outcome(d, Undefined)
  ELSE LET updatedLog == Spread(d.workoutLogs[id], [completed |-> "true"])
       IN Outcome([d EXCEPT !.workoutLogs = With(@, id, updatedLog)], Value(updatedLog))

\* "UPDATE workout_logs SET completed = 1 WHERE id = ? RETURNING *"
SQLiteStorage_completeWorkoutLog(d, id) ==
  IF id \notin DOMAIN d.workoutLogs THEN Outcome(d, Undefined)
  ELSE LET result == Spread(d.workoutLogs[id], [completed |-> "1"])
       IN Outcome([d EXCEPT !.workoutLogs = With(@, id, result)], Value(result))

DatabaseStorage_completeWorkoutLog(d, id) ==
  SetWhereId(d, "workoutLogs", id, [completed |-> "true"])

\* The results the method can give.  The catalog entry of an exercise is
\* modelled by its id.
MemStorage_getExerciseLogs(d, workoutLogId) ==
  LET logs == StableSort(SelectSeq(MapValues(d.exerciseLogs),
                                   LAMBDA log : log.workoutLogId = workoutLogId),
                         "setNumber", FALSE)
  IN {IF \E i \in DOMAIN logs : logs[i].exerciseId \notin d.exercises THEN Thrown
      ELSE Value([i \in DOMAIN logs |-> Spread(logs[i], [exercise |-> logs[i].exerciseId])])}

\* "SELECT el.*, ... FROM exercise_logs el JOIN exercises e ON el.exercise_id
\* = e.id WHERE el.workout_log_id = ? ORDER BY el.set_number"
SQLiteStorage_getExerciseLogs(d, workoutLogId) ==
  LET joined == {el \in Rows(d.exerciseLogs) :
                   /\ el.exercise_id \in d.exercises
                   /\ el.workout_log_id = workoutLogId}
  IN {Value([i \in DOMAIN results |->
               LET row == results[i]
               IN [id |-> row.id,
                   workoutLogId |-> row.workout_log_id,
                   exerciseId |-> row.exercise_id,
                   setNumber |-> row.set_number,
                   reps |-> row.reps,
                   weight |-> row.weight,
                   duration |-> row.duration,
                   completed |-> IF Truthy(row.completed) THEN "true" ELSE "false",
                   exercise |-> row.exercise_id]])
      : results \in OrderBy(joined, "set_number", FALSE)}

\* select(...).from(exerciseLogs).innerJoin(exercises, ...).where(workoutLogId)
\* .orderBy(asc(exerciseLogs.setNumber))
DatabaseStorage_getExerciseLogs(d, workoutLogId) ==
  LET joined == {el \in Rows(d.exerciseLogs) :
                   /\ el.exerciseId \in d.exercises
                   /\ el.workoutLogId = workoutLogId}
  IN {Value([i \in DOMAIN results |->
               Spread(results[i], [exercise |-> results[i].exerciseId])])
      : results \in OrderBy(joined, "setNumber", FALSE)}

MemStorage_createExerciseLog(d, insertLog) ==
  LET id == d.idCounter.exerciseLogs
      log == Spread(insertLog, [id |-> id])
  IN Outcome([d EXCEPT !.idCounter.exerciseLogs = id + 1,
                       !.exerciseLogs = With(@, id, log)],
             Value(log))

MemStorage_updateExerciseLog(d, id, update) ==
  IF id \notin DOMAIN d.exerciseLogs THEN Outcome(d, Undefined)
  ELSE LET updatedLog == Spread(d.exerciseLogs[id], update)
       IN Outcome([d EXCEPT !.exerciseLogs = With(@, id, updatedLog)],
                  Value(updatedLog))

ExerciseLogColumns ==
  {"id", "workout_log_id", "exercise_id", "set_number", "reps", "weight", "duration",
   "completed"}

SQLiteStorage_createExerciseLog(d, insertLog) ==
  LET id == d.idCounter.exerciseLogs
      result == [id |-> id,
                 workout_log_id |-> insertLog.workoutLogId,
                 exercise_id |-> insertLog.exerciseId,
                 set_number |-> insertLog.setNumber,
                 reps |-> OrNull(insertLog, "reps"),
                 weight |-> OrNull(insertLog, "weight"),
                 duration |-> OrNull(insertLog, "duration"),
                 completed |-> IF "completed" \in DOMAIN insertLog
                                  /\ Truthy(insertLog.completed)
                               THEN "1" ELSE "0"]
  IN IF FkViolated(d, "exerciseLogs", result) THEN Outcome(d, Thrown)
     ELSE Outcome([d EXCEPT !.idCounter.exerciseLogs = id + 1,
                            !.exerciseLogs = With(@, id, result)],
                  Value(result))

\* The SET list of updateExerciseLog: a boolean `completed` is bound as 1 or
\* 0, every other value as it is.
ExerciseLogUpdateParts(update) ==
  LET keys == DOMAIN update \ {"id"}
      param(k) == IF k = "completed" /\ IsBoolean(update[k])
                  THEN (IF Truthy(update[k]) THEN "1" ELSE "0")
                  ELSE update[k]
  IN [c \in {SnakeKey(k) : k \in keys} |-> param(CHOOSE k \in keys : SnakeKey(k) = c)]

SQLiteStorage_updateExerciseLog(d, id, update) ==
  UpdateWhereId(d, "exerciseLogs", ExerciseLogColumns, id, ExerciseLogUpdateParts(update))

DatabaseStorage_createExerciseLog(d, insertLog) ==
  InsertReturning(d, "exerciseLogs",
                  Spread(insertLog,
                         [reps |-> OrNull(insertLog, "reps"),
                          weight |-> OrNull(insertLog, "weight"),
                          duration |-> OrNull(insertLog, "duration"),
                          completed |-> IF "completed" \in DOMAIN insertLog
                                           /\ Truthy(insertLog.completed)
                                        THEN insertLog.completed ELSE "false"]))

DatabaseStorage_updateExerciseLog(d, id, update) ==
  SetWhereId(d, "exerciseLogs", id, update)

-----------------------------------------------------------------------------
(* Progress photos.  An input always names relatedMeasurementId: {} when   *)
(* the caller leaves it undefined.                                         *)

\* getProgressPhotos that hands back the user's photos of every category.
MemStorage_getProgressPhotos_EveryCategory(d, userId, category) ==
  SortByDate(SelectSeq(MapValues(d.progressPhotos), LAMBDA photo : photo.userId = userId))

\* The arrays the method can return.  A category that is undefined (or the
\* empty string) filters nothing.
MemStorage_getProgressPhotos(d, userId, category) ==
  {IF category # {}
   THEN SelectSeq(photos, LAMBDA photo : "category" \in DOMAIN photo /\ photo.category = category)
   ELSE photos
   : photos \in
       SortByDate(SelectSeq(MapValues(d.progressPhotos), LAMBDA photo : photo.userId = userId))}

MemStorage_getProgressPhoto(d, id) ==
  IF id \in DOMAIN d.progressPhotos THEN Value(d.progressPhotos[id]) ELSE Undefined

MemStorage_createProgressPhoto(d, insertPhoto) ==
  LET id == d.idCounter.progressPhotos
      photo == Spread(insertPhoto, [id |-> id])
  IN Outcome([d EXCEPT !.idCounter.progressPhotos = id + 1,
                       !.progressPhotos = With(@, id, photo)],
             Value(photo))

MemStorage_deleteProgressPhoto(d, id) ==
  Outcome([d EXCEPT !.progressPhotos = Without(@, id)],
          Value(id \in DOMAIN d.progressPhotos))

\* "SELECT * FROM progress_photos WHERE user_id = ? [AND category = ?] ORDER
\* BY date DESC"
SQLiteStorage_getProgressPhotos(d, userId, category) ==
  OrderBy({photo \in Rows(d.progressPhotos) :
             photo.user_id = userId /\ (category = {} \/ photo.category = category)},
          "date", TRUE)

SQLiteStorage_getProgressPhoto(d, id) ==
  IF id \in DOMAIN d.progressPhotos THEN Value(d.progressPhotos[id]) ELSE Undefined

\* The columns the input leaves undefined take their default, NULL.
SQLiteStorage_createProgressPhoto(d, insertPhoto) ==
  LET id == d.idCounter.progressPhotos
      result == [id |-> id,
                 user_id |-> insertPhoto.userId,
                 photo_url |-> insertPhoto.photoUrl,
                 category |-> DefinedOrNull(insertPhoto, "category"),
                 date |-> insertPhoto.date,
                 notes |-> DefinedOrNull(insertPhoto, "notes"),
                 related_measurement_id |-> insertPhoto.relatedMeasurementId]
  IN IF FkViolated(d, "progressPhotos", result) THEN Outcome(d, Thrown)
     ELSE Outcome([d EXCEPT !.idCounter.progressPhotos = id + 1,
                            !.progressPhotos = With(@, id, result)],
                  Value(result))

SQLiteStorage_deleteProgressPhoto(d, id) ==
  IF id \notin DOMAIN d.progressPhotos THEN Outcome(d, Value(FALSE))
  ELSE IF FkReferenced(d, "progressPhotos", id) THEN Outcome(d, Thrown)
  ELSE Outcome([d EXCEPT !.progressPhotos = Without(@, id)], Value(TRUE))

\* select().from(progressPhotos).where(userId)[.where(category)]
\* .orderBy(desc(date)): the two where() calls are taken as one conjunction.
DatabaseStorage_getProgressPhotos(d, userId, category) ==
  OrderBy({photo \in Rows(d.progressPhotos) :
             photo.userId = userId /\ (category = {} \/ photo.category = category)},
          "date", TRUE)

DatabaseStorage_getProgressPhoto(d, id) ==
  IF id \in DOMAIN d.progressPhotos THEN Value(d.progressPhotos[id]) ELSE Undefined

DatabaseStorage_createProgressPhoto(d, insertPhoto) ==
  InsertReturning(d, "progressPhotos",
                  Spread(insertPhoto,
                         [category |-> TextOrNull(insertPhoto, "category"),
                          notes |-> TextOrNull(insertPhoto, "notes"),
                          relatedMeasurementId |-> OrNull(insertPhoto, "relatedMeasurementId")]))

DatabaseStorage_deleteProgressPhoto(d, id) ==
  Outcome([d EXCEPT !.progressPhotos = Without(@, id)],
          Value(id \in DOMAIN d.progressPhotos))

-----------------------------------------------------------------------------
(* The live storage instance: each IStorage method on the implementation   *)
(* `impl` names                                                            *)

getMeasurement(d, id) ==
  CASE impl = "MemStorage" -> MemStorage_getMeasurement(d, id)
    [] impl = "SQLiteStorage" -> SQLiteStorage_getMeasurement(d, id)
    [] impl = "DatabaseStorage" -> DatabaseStorage_getMeasurement(d, id)

\* The results the call can return (one, unless the order of the rows the
\* SQL read returns is open).
getMeasurementsWithChange(d, userId, type) ==
  CASE impl = "MemStorage" -> MemStorage_getMeasurementsWithChange(d, userId, type)
    [] impl = "SQLiteStorage" -> SQLiteStorage_getMeasurementsWithChange(d, userId, type)
    [] impl = "DatabaseStorage" -> DatabaseStorage_getMeasurementsWithChange(d, userId, type)

createMeasurement(d, insertMeasurement) ==
  CASE impl = "MemStorage" -> MemStorage_createMeasurement(d, insertMeasurement)
    [] impl = "SQLiteStorage" -> SQLiteStorage_createMeasurement(d, insertMeasurement)
    [] impl = "DatabaseStorage" -> DatabaseStorage_createMeasurement(d, insertMeasurement)

updateMeasurement(d, id, measurementUpdate) ==
  CASE impl = "MemStorage" -> MemStorage_updateMeasurement(d, id, measurementUpdate)
    [] impl = "SQLiteStorage" -> SQLiteStorage_updateMeasurement(d, id, measurementUpdate)
    [] impl = "DatabaseStorage" -> DatabaseStorage_updateMeasurement(d, id, measurementUpdate)

deleteMeasurement(d, id) ==
  CASE impl = "MemStorage" -> MemStorage_deleteMeasurement(d, id)
    [] impl = "SQLiteStorage" -> SQLiteStorage_deleteMeasurement(d, id)
    [] impl = "DatabaseStorage" -> DatabaseStorage_deleteMeasurement(d, id)

getWorkoutProgram(d, id) ==
  CASE impl = "MemStorage" -> MemStorage_getWorkoutProgram(d, id)
    [] impl = "SQLiteStorage" -> SQLiteStorage_getWorkoutProgram(d, id)
    [] impl = "DatabaseStorage" -> DatabaseStorage_getWorkoutProgram(d, id)

createWorkoutProgram(d, insertProgram) ==
  CASE impl = "MemStorage" -> MemStorage_createWorkoutProgram(d, insertProgram)
    [] impl = "SQLiteStorage" -> SQLiteStorage_createWorkoutProgram(d, insertProgram)
    [] impl = "DatabaseStorage" -> DatabaseStorage_createWorkoutProgram(d, insertProgram)

updateWorkoutProgram(d, id, programUpdate) ==
  CASE impl = "MemStorage" -> MemStorage_updateWorkoutProgram(d, id, programUpdate)
    [] impl = "SQLiteStorage" -> SQLiteStorage_updateWorkoutProgram(d, id, programUpdate)
    [] impl = "DatabaseStorage" -> DatabaseStorage_updateWorkoutProgram(d, id, programUpdate)

addExerciseToWorkout(d, insertWorkoutExercise) ==
  CASE impl = "MemStorage" -> MemStorage_addExerciseToWorkout(d, insertWorkoutExercise)
    [] impl = "SQLiteStorage" -> SQLiteStorage_addExerciseToWorkout(d, insertWorkoutExercise)
    [] impl = "DatabaseStorage" -> DatabaseStorage_addExerciseToWorkout(d, insertWorkoutExercise)

updateWorkoutExercise(d, id, update) ==
  CASE impl = "MemStorage" -> MemStorage_updateWorkoutExercise(d, id, update)
    [] impl = "SQLiteStorage" -> SQLiteStorage_updateWorkoutExercise(d, id, update)
    [] impl = "DatabaseStorage" -> DatabaseStorage_updateWorkoutExercise(d, id, update)

removeExerciseFromWorkout(d, id) ==
  CASE impl = "MemStorage" -> MemStorage_removeExerciseFromWorkout(d, id)
    [] impl = "SQLiteStorage" -> SQLiteStorage_removeExerciseFromWorkout(d, id)
    [] impl = "DatabaseStorage" -> DatabaseStorage_removeExerciseFromWorkout(d, id)

getWorkoutExercises(d, workoutProgramId) ==
  CASE impl = "MemStorage" -> MemStorage_getWorkoutExercises(d, workoutProgramId)
    [] impl = "SQLiteStorage" -> SQLiteStorage_getWorkoutExercises(d, workoutProgramId)
    [] impl = "DatabaseStorage" -> DatabaseStorage_getWorkoutExercises(d, workoutProgramId)

createWorkoutLog(d, insertLog) ==
  CASE impl = "MemStorage" -> MemStorage_createWorkoutLog(d, insertLog)
    [] impl = "SQLiteStorage" -> SQLiteStorage_createWorkoutLog(d, insertLog)
    [] impl = "DatabaseStorage" -> DatabaseStorage_createWorkoutLog(d, insertLog)

completeWorkoutLog(d, id) ==
  CASE impl = "MemStorage" -> MemStorage_completeWorkoutLog(d, id)
    [] impl = "SQLiteStorage" -> SQLiteStorage_completeWorkoutLog(d, id)
    [] impl = "DatabaseStorage" -> DatabaseStorage_completeWorkoutLog(d, id)

createExerciseLog(d, insertLog) ==
  CASE impl = "MemStorage" -> MemStorage_createExerciseLog(d, insertLog)
    [] impl = "SQLiteStorage" -> SQLiteStorage_createExerciseLog(d, insertLog)
    [] impl = "DatabaseStorage" -> DatabaseStorage_createExerciseLog(d, insertLog)

updateExerciseLog(d, id, update) ==
  CASE impl = "MemStorage" -> MemStorage_updateExerciseLog(d, id, update)
    [] impl = "SQLiteStorage" -> SQLiteStorage_updateExerciseLog(d, id, update)
    [] impl = "DatabaseStorage" -> DatabaseStorage_updateExerciseLog(d, id, update)

getMeasurements(d, userId, type) ==
  CASE impl = "MemStorage" -> MemStorage_getMeasurements(d, userId, type)
    [] impl = "SQLiteStorage" -> SQLiteStorage_getMeasurements(d, userId, type)
    [] impl = "DatabaseStorage" -> DatabaseStorage_getMeasurements(d, userId, type)

getProgressPhotos(d, userId, category) ==
  CASE impl = "MemStorage" -> MemStorage_getProgressPhotos(d, userId, category)
    [] impl = "SQLiteStorage" -> SQLiteStorage_getProgressPhotos(d, userId, category)
    [] impl = "DatabaseStorage" -> DatabaseStorage_getProgressPhotos(d, userId, category)

getExerciseLogs(d, workoutLogId) ==
  CASE impl = "MemStorage" -> MemStorage_getExerciseLogs(d, workoutLogId)
    [] impl = "SQLiteStorage" -> SQLiteStorage_getExerciseLogs(d, workoutLogId)
    [] impl = "DatabaseStorage" -> DatabaseStorage_getExerciseLogs(d, workoutLogId)

getProgressPhoto(d, id) ==
  CASE impl = "MemStorage" -> MemStorage_getProgressPhoto(d, id)
    [] impl = "SQLiteStorage" -> SQLiteStorage_getProgressPhoto(d, id)
    [] impl = "DatabaseStorage" -> DatabaseStorage_getProgressPhoto(d, id)

createProgressPhoto(d, insertPhoto) ==
  CASE impl = "MemStorage" -> MemStorage_createProgressPhoto(d, insertPhoto)
    [] impl = "SQLiteStorage" -> SQLiteStorage_createProgressPhoto(d, insertPhoto)
    [] impl = "DatabaseStorage" -> DatabaseStorage_createProgressPhoto(d, insertPhoto)

deleteProgressPhoto(d, id) ==
  CASE impl = "MemStorage" -> MemStorage_deleteProgressPhoto(d, id)
    [] impl = "SQLiteStorage" -> SQLiteStorage_deleteProgressPhoto(d, id)
    [] impl = "DatabaseStorage" -> DatabaseStorage_deleteProgressPhoto(d, id)

-----------------------------------------------------------------------------
(* Initial state and the calls as actions                                  *)

Init ==
  /\ impl \in Impls
  /\ fk \in BOOLEAN
  /\ (impl # "SQLiteStorage" => fk = FALSE)
  /\ db = InitialStore
  /\ ret = [op |-> "none"]
  /\ inflight = {}
  /\ unlinked = {}
  /\ reads = {}
  /\ createdWith = <<>>
  /\ sql = InitialStore
  /\ exerciseLogs = <<>>
  /\ exerciseSets = [setIndex \in SetIndexes |-> "false"]
  /\ awaiting = {}

\* The ids a caller passes: every id a table hands out and one it never does.
IdArgs == 1..(MaxId + 1)

\* The id an update mapping carries when it carries one.
SuppliedId == MaxId + 1

\* An update mapping with no field.
NoFields == [k \in {} |-> 0]

\* The measurements callers create: every type, value and date for user 1,
\* and a few measurements of user 2.
MeasurementInputs ==
  [userId : {1}, type : Types, value : Values, unit : Units, date : Dates]
    \cup [userId : {2}, type : {"weight"}, value : {2}, unit : Units, date : Dates]

\* What POST /api/measurements hands to createMeasurement when the body has
\* no date: the insert schema leaves date optional.
MeasurementInputsWithoutDate == [userId : {1}, type : Types, value : {1}, unit : Units]

\* One measurement of each type.
FewMeasurements == [userId : {1}, type : Types, value : {1}, unit : Units, date : {1}]

MeasurementUpdates ==
  <<NoFields, [value |-> 2], [type |-> "bicep"], [id |-> SuppliedId],
    [id |-> SuppliedId, value |-> 2]>>

ProgramInputs == [userId : {1}, name : {"push", "pull"}]

ProgramUpdates == <<NoFields, [name |-> "pull"], [id |-> SuppliedId]>>

\* What POST /api/workout-exercises hands to addExerciseToWorkout.
WorkoutExerciseInputs == [workoutProgramId : {1, 2}, exerciseId : {1}, sequence : {1}]

\* Links of program 1 at every position of a three-exercise program.
PositionedExerciseInputs == [workoutProgramId : {1}, exerciseId : {1, 2}, sequence : 1..3]

\* An exercise id the catalog does not hold.
UncataloguedExercise == NumDefaultExercises + 1

\* What POST /api/workout-exercises hands on for an exercise of the catalog
\* and for one that is not in it: the route looks no exercise up.
UncataloguedExerciseInputs ==
  [workoutProgramId : {1, 2}, exerciseId : {1, UncataloguedExercise}, sequence : {1}]

WorkoutExerciseUpdates ==
  <<NoFields, [sequence |-> 2], [order |-> 2], [workoutProgramId |-> 2],
    [id |-> SuppliedId]>>

WorkoutLogInputs == [userId : {1}, workoutProgramId : {1}, date : {1}]

\* What POST /api/workout-logs hands to createWorkoutLog: the insert schema
\* lets the body carry `completed`.
WorkoutLogInputsOfRoute ==
  WorkoutLogInputs
    \cup [userId : {1}, workoutProgramId : {1}, date : {1}, completed : {"true", "false"}]

ExerciseLogInputs == [workoutLogId : {1}, exerciseId : {1}, setNumber : {1}]

ExerciseLogUpdates ==
  <<NoFields, [reps |-> {8}], [completed |-> "true"], [id |-> SuppliedId]>>

\* Logs of either workout log, of a set of an exercise in the catalog or not
\* in it: POST /api/exercise-logs looks no exercise up.
SetLogInputs ==
  [workoutLogId : {1, 2}, exerciseId : {1, UncataloguedExercise}, setNumber : {1, 2}]

PhotoInputs ==
  [userId : {1}, photoUrl : {"photo"}, date : {1}, relatedMeasurementId : Opt({1})]

Categories == {"front", "back"}

\* Photos of a category, of either user.
CategorizedPhotoInputs ==
  [userId : Users, photoUrl : {"photo"}, date : Dates, relatedMeasurementId : {{}},
   category : {{c} : c \in Categories}]

\* The property that names a link's program in a stored link.
ProgramKey == IF impl = "SQLiteStorage" THEN "workout_program_id" ELSE "workoutProgramId"

\* The links of program p in store d.
LinksOf(d, p) == {we \in Rows(d.workoutExercises) : we[ProgramKey] = p}

\* The ids of the links of program p in store d.
LinkIdsOf(d, p) == {we.id : we \in LinksOf(d, p)}

\* A read of a program with its links that is between its two queries has
\* `program` in hand; `seen` collects what the store has shown of that
\* program's links since the read began, in the states where no delete has
\* removed the program's links and not yet the program.
Observed(pending, d, partial) ==
  {[r EXCEPT !.seen = @ \cup IF /\ r.id \in DOMAIN d.workoutPrograms
                                 /\ d.workoutPrograms[r.id] = r.program
                                 /\ r.id \notin partial
                              THEN {LinkIdsOf(d, r.id)} ELSE {}]
   : r \in pending}

\* A call that ran `o` = Outcome(store, result), as it acts on the server.
Call(op, id, arg, o) ==
  /\ db' = o.db
  /\ ret' = [op |-> op, id |-> id, arg |-> arg, res |-> o.res]
  /\ createdWith' = IF op = "addExerciseToWorkout" /\ o.res.kind = "value"
                    THEN With(createdWith, o.res.val.id, arg.sequence)
                    ELSE createdWith
  /\ reads' = Observed(reads, o.db, unlinked)
  /\ UNCHANGED <<impl, fk, inflight, unlinked, sql, awaiting>>

\* A call made by anyone but the WorkoutExecution page.
Called(op, id, arg, o) ==
  /\ Call(op, id, arg, o)
  /\ UNCHANGED <<exerciseLogs, exerciseSets>>

\* The records created so far, over all tables.
Created ==
  db.idCounter.measurements + db.idCounter.progressPhotos + db.idCounter.workoutPrograms
    + db.idCounter.workoutExercises + db.idCounter.workoutLogs
    + db.idCounter.exerciseLogs - 6

\* The specifications that exercise several tables at once stop creating at
\* MaxRecords records.
Room == Created < MaxRecords

CreateMeasurement(inputs) ==
  /\ db.idCounter.measurements <= MaxId
  /\ \E insertMeasurement \in inputs :
       Called("createMeasurement", 0, insertMeasurement,
              createMeasurement(db, insertMeasurement))

UpdateMeasurement ==
  \E id \in IdArgs, u \in DOMAIN MeasurementUpdates :
    Called("updateMeasurement", id, MeasurementUpdates[u],
           updateMeasurement(db, id, MeasurementUpdates[u]))

DeleteMeasurement ==
  \E id \in IdArgs :
    Called("deleteMeasurement", id, NoFields, deleteMeasurement(db, id))

GetMeasurementsWithChange ==
  \E userId \in Users, type \in Opt(Types) :
    \E result \in getMeasurementsWithChange(db, userId, type) :
      Called("getMeasurementsWithChange", 0, [userId |-> userId, type |-> type],
             Outcome(db, Value(result)))

CreateWorkoutProgram ==
  /\ db.idCounter.workoutPrograms <= MaxId
  /\ \E insertProgram \in ProgramInputs :
       Called("createWorkoutProgram", 0, insertProgram,
              createWorkoutProgram(db, insertProgram))

UpdateWorkoutProgram ==
  \E id \in IdArgs, u \in DOMAIN ProgramUpdates :
    Called("updateWorkoutProgram", id, ProgramUpdates[u],
           updateWorkoutProgram(db, id, ProgramUpdates[u]))

\* MemStorage and SQLiteStorage run deleteWorkoutProgram without a pause.
DeleteWorkoutProgram ==
  /\ impl # "DatabaseStorage"
  /\ \E id \in IdArgs :
       Called("deleteWorkoutProgram", id, NoFields,
              IF impl = "MemStorage" THEN MemStorage_deleteWorkoutProgram(db, id)
              ELSE SQLiteStorage_deleteWorkoutProgram(db, id))

\* DatabaseStorage.deleteWorkoutProgram up to its second await: the links are
\* deleted and the call waits, other calls run meanwhile.
DeleteWorkoutProgram_Links ==
  /\ impl = "DatabaseStorage"
  /\ \E id \in IdArgs \ inflight :
       /\ db' = DatabaseStorage_deleteWorkoutProgram_Links(db, id)
       /\ inflight' = inflight \cup {id}
       /\ unlinked' = IF LinksOf(db, id) # {} THEN unlinked \cup {id} ELSE unlinked
       /\ reads' = Observed(reads, db', unlinked')
       /\ ret' = [op |-> "deleteWorkoutProgram.await", id |-> id, arg |-> NoFields,
                  res |-> Undefined]
       /\ UNCHANGED <<impl, fk, createdWith, sql, exerciseLogs, exerciseSets, awaiting>>

\* ... and from there to its return.
DeleteWorkoutProgram_Program ==
  /\ impl = "DatabaseStorage"
  /\ \E id \in inflight :
       LET o == DatabaseStorage_deleteWorkoutProgram_Program(db, id)
       IN /\ db' = o.db
          /\ inflight' = inflight \ {id}
          /\ unlinked' = unlinked \ {id}
          /\ reads' = Observed(reads, o.db, unlinked')
          /\ ret' = [op |-> "deleteWorkoutProgram", id |-> id, arg |-> NoFields,
                     res |-> o.res]
          /\ UNCHANGED <<impl, fk, createdWith, sql, exerciseLogs, exerciseSets, awaiting>>

AddExerciseToWorkout ==
  /\ db.idCounter.workoutExercises <= MaxId
  /\ \E insertWorkoutExercise \in WorkoutExerciseInputs :
       Called("addExerciseToWorkout", 0, insertWorkoutExercise,
              addExerciseToWorkout(db, insertWorkoutExercise))

AddExerciseAtPosition ==
  /\ db.idCounter.workoutExercises <= MaxId
  /\ \E insertWorkoutExercise \in PositionedExerciseInputs :
       Called("addExerciseToWorkout", 0, insertWorkoutExercise,
              addExerciseToWorkout(db, insertWorkoutExercise))

AddUncataloguedExercise ==
  /\ db.idCounter.workoutExercises <= MaxId
  /\ \E insertWorkoutExercise \in UncataloguedExerciseInputs :
       Called("addExerciseToWorkout", 0, insertWorkoutExercise,
              addExerciseToWorkout(db, insertWorkoutExercise))

GetWorkoutExercises ==
  \E workoutProgramId \in {1, 2} :
    \E result \in getWorkoutExercises(db, workoutProgramId) :
      Called("getWorkoutExercises", workoutProgramId, NoFields, Outcome(db, result))

\* MemStorage and SQLiteStorage run getWorkoutProgramWithExercises without
\* a pause.
GetWorkoutProgramWithExercises ==
  /\ impl # "DatabaseStorage"
  /\ \E id \in {1, 2} :
       \E result \in (IF impl = "MemStorage"
                      THEN MemStorage_getWorkoutProgramWithExercises(db, id)
                      ELSE SQLiteStorage_getWorkoutProgramWithExercises(db, id)) :
         /\ ret' = [op |-> "getWorkoutProgramWithExercises", id |-> id, arg |-> NoFields,
                    res |-> result, seen |-> {LinkIdsOf(db, id)}]
         /\ UNCHANGED <<impl, fk, db, inflight, unlinked, reads, createdWith, sql, exerciseLogs, exerciseSets, awaiting>>

\* DatabaseStorage.getWorkoutProgramWithExercises up to its second await: the
\* program is read; without one the call returns, with one it goes on to
\* read the links and other calls run meanwhile.
GetWorkoutProgramWithExercises_Program ==
  /\ impl = "DatabaseStorage"
  /\ reads = {}
  /\ \E id \in {1, 2} :
       LET program == DatabaseStorage_getWorkoutProgram(db, id)
       IN /\ IF program.kind = "undefined"
             THEN /\ reads' = reads
                  /\ ret' = [op |-> "getWorkoutProgramWithExercises", id |-> id,
                             arg |-> NoFields, res |-> Undefined, seen |-> {}]
             ELSE /\ reads' = Observed({[id |-> id, program |-> program.val, seen |-> {}]},
                                       db, unlinked)
                  /\ ret' = [op |-> "getWorkoutProgramWithExercises.await", id |-> id,
                             arg |-> NoFields, res |-> Undefined]
          /\ UNCHANGED <<impl, fk, db, inflight, unlinked, createdWith, sql, exerciseLogs, exerciseSets, awaiting>>

\* ... and from there to its return.
GetWorkoutProgramWithExercises_Exercises ==
  /\ impl = "DatabaseStorage"
  /\ \E r \in reads :
       \E result \in DatabaseStorage_getWorkoutProgramWithExercises_Exercises(db, r.id,
                                                                             r.program) :
         /\ reads' = reads \ {r}
         /\ ret' = [op |-> "getWorkoutProgramWithExercises", id |-> r.id, arg |-> NoFields,
                    res |-> result, seen |-> r.seen]
         /\ UNCHANGED <<impl, fk, db, inflight, unlinked, createdWith, sql, exerciseLogs, exerciseSets, awaiting>>

UpdateWorkoutExercise ==
  \E id \in IdArgs, u \in DOMAIN WorkoutExerciseUpdates :
    Called("updateWorkoutExercise", id, WorkoutExerciseUpdates[u],
           updateWorkoutExercise(db, id, WorkoutExerciseUpdates[u]))

RemoveExerciseFromWorkout ==
  \E id \in IdArgs :
    Called("removeExerciseFromWorkout", id, NoFields, removeExerciseFromWorkout(db, id))

CreateWorkoutLog ==
  /\ db.idCounter.workoutLogs <= MaxId
  /\ \E insertLog \in WorkoutLogInputs :
       Called("createWorkoutLog", 0, insertLog, createWorkoutLog(db, insertLog))

CreateWorkoutLogOfRoute ==
  /\ db.idCounter.workoutLogs <= MaxId
  /\ \E insertLog \in WorkoutLogInputsOfRoute :
       Called("createWorkoutLog", 0, insertLog, createWorkoutLog(db, insertLog))

CompleteWorkoutLog ==
  \E id \in IdArgs :
    Called("completeWorkoutLog", id, NoFields, completeWorkoutLog(db, id))

CreateExerciseLog ==
  /\ db.idCounter.exerciseLogs <= MaxId
  /\ \E insertLog \in ExerciseLogInputs :
       Called("createExerciseLog", 0, insertLog, createExerciseLog(db, insertLog))

UpdateExerciseLog ==
  \E id \in IdArgs, u \in DOMAIN ExerciseLogUpdates :
    Called("updateExerciseLog", id, ExerciseLogUpdates[u],
           updateExerciseLog(db, id, ExerciseLogUpdates[u]))

CreateProgressPhoto ==
  /\ db.idCounter.progressPhotos <= MaxId
  /\ \E insertPhoto \in PhotoInputs :
       Called("createProgressPhoto", 0, insertPhoto, createProgressPhoto(db, insertPhoto))

DeleteProgressPhoto ==
  \E id \in IdArgs :
    Called("deleteProgressPhoto", id, NoFields, deleteProgressPhoto(db, id))

CreateCategorizedPhoto ==
  /\ db.idCounter.progressPhotos <= MaxId
  /\ \E insertPhoto \in CategorizedPhotoInputs \cup PhotoInputs :
       Called("createProgressPhoto", 0, insertPhoto, createProgressPhoto(db, insertPhoto))

GetMeasurements ==
  \E userId \in Users, type \in Opt(Types) :
    \E result \in getMeasurements(db, userId, type) :
      Called("getMeasurements", 0, [userId |-> userId, type |-> type],
             Outcome(db, Value(result)))

GetProgressPhotos ==
  \E userId \in Users, category \in Opt(Categories) :
    \E result \in getProgressPhotos(db, userId, category) :
      Called("getProgressPhotos", 0, [userId |-> userId, category |-> category],
             Outcome(db, Value(result)))

GetProgressPhoto ==
  \E id \in IdArgs :
    Called("getProgressPhoto", id, NoFields, Outcome(db, getProgressPhoto(db, id)))

NextPhotos ==
  \/ Room /\ CreateMeasurement(FewMeasurements)
  \/ Room /\ CreateProgressPhoto
  \/ DeleteMeasurement
  \/ GetProgressPhoto
  \/ GetProgressPhotos

\* Photos that refer to measurements, among deletes of measurements.
SpecPhotos == Init /\ [][NextPhotos]_vars

\* The characters of the keys the mapper is tried on: lower-case and
\* upper-case letters, the underscore and a digit.
KeyChars == {"a", "d", "I", "P", "_", "1"}

MaxKeyLen == 3

RECURSIVE KeysOfLength(_)
KeysOfLength(n) ==
  IF n = 0 THEN {<<>>}
  ELSE {Append(key, c) : key \in KeysOfLength(n - 1), c \in KeyChars}

Keys == UNION {KeysOfLength(n) : n \in 0..MaxKeyLen}

\* this.toSnakeCase(key)
ToSnakeCase ==
  /\ impl = "SQLiteStorage"
  /\ \E key \in Keys :
       Called("toSnakeCase", 0, key, Outcome(db, Value(toSnakeCase(key))))

\* this.toSnakeCase on a key it returned.
ToSnakeCaseAgain ==
  /\ impl = "SQLiteStorage"
  /\ ret.op \in {"toSnakeCase", "toSnakeCase.again"}
  /\ Called("toSnakeCase.again", 0, ret.res.val, Outcome(db, Value(toSnakeCase(ret.res.val))))

NextKeys ==
  \/ ToSnakeCase
  \/ ToSnakeCaseAgain

\* The field-name mapper of SQLiteStorage over keys of up to MaxKeyLen
\* characters.
SpecKeys == Init /\ [][NextKeys]_vars

\* An id no record can have.
NegativeId == -1

\* Inputs of createMeasurement and addExerciseToWorkout in which an id may be
\* negative.
AnyOwnerMeasurementInputs ==
  [userId : {NegativeId, 1}, type : {"weight"}, value : {1}, unit : Units, date : {1}]

AnyIdsWorkoutExerciseInputs ==
  [workoutProgramId : {NegativeId, 1}, exerciseId : {NegativeId, 1}, sequence : {1}]

AddExerciseOfAnyIds ==
  /\ db.idCounter.workoutExercises < MaxId
  /\ \E insertWorkoutExercise \in AnyIdsWorkoutExerciseInputs :
       Called("addExerciseToWorkout", 0, insertWorkoutExercise,
              addExerciseToWorkout(db, insertWorkoutExercise))

NextNegative ==
  \/ db.idCounter.measurements < MaxId /\ CreateMeasurement(AnyOwnerMeasurementInputs)
  \/ db.idCounter.workoutPrograms = 1 /\ CreateWorkoutProgram
  \/ AddExerciseOfAnyIds

\* Creates and links whose owner, program or exercise id may be negative.
SpecNegative == Init /\ [][NextNegative]_vars

\* What a route handler answers: res.status(status).json(body).  A body of
\* Undefined is res.json(undefined), which sends no body.
Response(status, body) == [status |-> status, body |-> body]

\* res.json(updatedMeasurement), or the catch clause when the call threw.
AnswerOfUpdate(result) ==
  IF result.kind = "throw" THEN Response(500, Value("Failed to update measurement"))
  ELSE Response(200, result)

\* validatedData of PUT /api/measurements/:id.
MeasurementUpdatesOfRoute == {[value |-> 2], [type |-> "bicep"]}

\* Most requests between two awaited calls of their handler.
MaxAwaiting == 1

Answered(id, data, d, response) ==
  /\ db' = d
  /\ ret' = [op |-> "PUT /api/measurements/:id", id |-> id, arg |-> data, res |-> response]
  /\ reads' = Observed(reads, d, unlinked)
  /\ UNCHANGED <<impl, fk, inflight, unlinked, createdWith, sql, exerciseLogs, exerciseSets>>

\* PUT /api/measurements/:id up to the return of getMeasurement.  The methods
\* of MemStorage and SQLiteStorage run to their end when called, so the
\* handler goes on to updateMeasurement and answers before another request is
\* served; DatabaseStorage awaits the database, and other requests are served
\* meanwhile.
PutMeasurement ==
  \E id \in IdArgs, validatedData \in MeasurementUpdatesOfRoute :
    LET measurement == getMeasurement(db, id)
    IN IF measurement.kind = "undefined"
       THEN /\ Answered(id, validatedData, db, Response(404, Value("Measurement not found")))
            /\ UNCHANGED awaiting
       ELSE IF impl = "DatabaseStorage"
       THEN /\ Cardinality(awaiting) < MaxAwaiting
            /\ awaiting' = awaiting \cup {[id |-> id, validatedData |-> validatedData]}
            /\ ret' = [op |-> "PUT /api/measurements/:id.await", id |-> id,
                       arg |-> validatedData, res |-> measurement]
            /\ UNCHANGED <<impl, fk, db, inflight, unlinked, reads, createdWith, sql,
                           exerciseLogs, exerciseSets>>
       ELSE LET o == updateMeasurement(db, id, validatedData)
            IN /\ Answered(id, validatedData, o.db, AnswerOfUpdate(o.res))
               /\ UNCHANGED awaiting

\* ... and from the call of updateMeasurement to the answer.
PutMeasurement_Update ==
  \E request \in awaiting :
    LET o == updateMeasurement(db, request.id, request.validatedData)
    IN /\ Answered(request.id, request.validatedData, o.db, AnswerOfUpdate(o.res))
       /\ awaiting' = awaiting \ {request}

NextPut ==
  \/ Room /\ CreateMeasurement(FewMeasurements)
  \/ DeleteMeasurement
  \/ PutMeasurement
  \/ PutMeasurement_Update

\* PUT /api/measurements/:id among creates and deletes of measurements.
SpecPut == Init /\ [][NextPut]_vars

NextLists ==
  \/ Room /\ CreateMeasurement(MeasurementInputs \cup MeasurementInputsWithoutDate)
  \/ DeleteMeasurement
  \/ GetMeasurements
  \/ Room /\ CreateCategorizedPhoto
  \/ DeleteProgressPhoto
  \/ GetProgressPhotos

\* The list reads of measurements and photos among creates and deletes.
SpecLists == Init /\ [][NextLists]_vars

NextHistory ==
  \/ CreateMeasurement(MeasurementInputs)
  \/ DeleteMeasurement
  \/ GetMeasurementsWithChange

\* Measurement history: creating, deleting and reading measurements.
SpecHistory == Init /\ [][NextHistory]_vars

NextDates ==
  \/ CreateMeasurement(MeasurementInputs \cup MeasurementInputsWithoutDate)
  \/ DeleteMeasurement
  \/ GetMeasurementsWithChange

\* Measurement history when a measurement may be created without a date.
SpecDates == Init /\ [][NextDates]_vars

NextUpdate ==
  \/ Room /\ CreateMeasurement(FewMeasurements)
  \/ UpdateMeasurement
  \/ Room /\ CreateWorkoutProgram
  \/ UpdateWorkoutProgram
  \/ Room /\ AddExerciseToWorkout
  \/ UpdateWorkoutExercise
  \/ Room /\ CreateWorkoutLog
  \/ Room /\ CreateExerciseLog
  \/ UpdateExerciseLog

\* The four partial updates over the records they update.
SpecUpdate == Init /\ [][NextUpdate]_vars

NextDelete ==
  \/ Room /\ CreateMeasurement(FewMeasurements)
  \/ Room /\ CreateProgressPhoto
  \/ Room /\ CreateWorkoutProgram
  \/ Room /\ AddExerciseToWorkout
  \/ DeleteMeasurement
  \/ DeleteProgressPhoto
  \/ RemoveExerciseFromWorkout

\* The three single-record deletes over the records they delete.
SpecDelete == Init /\ [][NextDelete]_vars

NextWorkout ==
  \/ Room /\ CreateWorkoutProgram
  \/ DeleteWorkoutProgram
  \/ DeleteWorkoutProgram_Links
  \/ DeleteWorkoutProgram_Program
  \/ Room /\ AddExerciseToWorkout
  \/ UpdateWorkoutExercise
  \/ RemoveExerciseFromWorkout

\* Workout programs and their links, calls of concurrent requests
\* interleaving where a call awaits.
SpecWorkout == Init /\ [][NextWorkout]_vars

\* The same call on the in-memory storage and on a SQLiteStorage beside it.
CalledOnBoth(op, id, arg, m, q) ==
  /\ impl = "MemStorage"
  /\ db' = m.db
  /\ sql' = q.db
  /\ ret' = [op |-> op, id |-> id, arg |-> arg, res |-> m.res, sqlRes |-> q.res]
  /\ UNCHANGED <<impl, fk, inflight, unlinked, reads, createdWith, exerciseLogs, exerciseSets, awaiting>>

CreateMeasurementOnBoth ==
  /\ Room
  /\ \E insertMeasurement \in MeasurementInputs :
       CalledOnBoth("both.createMeasurement", 0, insertMeasurement,
                    MemStorage_createMeasurement(db, insertMeasurement),
                    SQLiteStorage_createMeasurement(sql, insertMeasurement))

UpdateMeasurementOnBoth ==
  \E id \in IdArgs, u \in DOMAIN MeasurementUpdates :
    CalledOnBoth("both.updateMeasurement", id, MeasurementUpdates[u],
                 MemStorage_updateMeasurement(db, id, MeasurementUpdates[u]),
                 SQLiteStorage_updateMeasurement(sql, id, MeasurementUpdates[u]))

DeleteMeasurementOnBoth ==
  \E id \in IdArgs :
    CalledOnBoth("both.deleteMeasurement", id, NoFields,
                 MemStorage_deleteMeasurement(db, id),
                 SQLiteStorage_deleteMeasurement(sql, id))

GetMeasurementsWithChangeOnBoth ==
  \E userId \in Users, type \in Opt(Types) :
    \E result \in SQLiteStorage_getMeasurementsWithChange(sql, userId, type),
       measurements \in MemStorage_getMeasurementsWithChange(db, userId, type) :
      CalledOnBoth("both.getMeasurementsWithChange", 0, [userId |-> userId, type |-> type],
                   Outcome(db, Value(measurements)),
                   Outcome(sql, Value(result)))

NextBoth ==
  \/ CreateMeasurementOnBoth
  \/ UpdateMeasurementOnBoth
  \/ DeleteMeasurementOnBoth
  \/ GetMeasurementsWithChangeOnBoth

\* The in-memory and the SQL-backed storage given the same measurement calls.
SpecBoth == Init /\ [][NextBoth]_vars

NextReads ==
  \/ Room /\ CreateWorkoutProgram
  \/ Room /\ AddExerciseToWorkout
  \/ RemoveExerciseFromWorkout
  \/ DeleteWorkoutProgram
  \/ DeleteWorkoutProgram_Links
  \/ DeleteWorkoutProgram_Program
  \/ GetWorkoutProgramWithExercises
  \/ GetWorkoutProgramWithExercises_Program
  \/ GetWorkoutProgramWithExercises_Exercises

\* Reads of a program with its links among the calls that write them.
SpecReads == Init /\ [][NextReads]_vars

NextIds ==
  \/ Room /\ CreateMeasurement(FewMeasurements)
  \/ UpdateMeasurement
  \/ DeleteMeasurement
  \/ Room /\ AddExerciseToWorkout
  \/ UpdateWorkoutExercise
  \/ RemoveExerciseFromWorkout
  \/ Room /\ CreateProgressPhoto
  \/ DeleteProgressPhoto

\* Identifiers: records created, updated and deleted in turn.
SpecIds == Init /\ [][NextIds]_vars

NextLogs ==
  \/ Room /\ CreateWorkoutProgram
  \/ Room /\ CreateWorkoutLogOfRoute
  \/ CompleteWorkoutLog
  \/ Room /\ CreateExerciseLog
  \/ UpdateExerciseLog
  \/ DeleteWorkoutProgram
  \/ DeleteWorkoutProgram_Links
  \/ DeleteWorkoutProgram_Program

\* Workout logs: starting and completing them, writing exercise logs and
\* deleting programs meanwhile.
SpecLogs == Init /\ [][NextLogs]_vars

\* The first of the fetched logs that is about the given exercise and set,
\* if there is one: exerciseLogs?.find(...).
ExistingLog(exerciseId, setNumber) ==
  LET found == {i \in DOMAIN exerciseLogs :
                  /\ exerciseLogs[i].exerciseId = exerciseId
                  /\ exerciseLogs[i].setNumber = setNumber}
  IN IF found = {} THEN {} ELSE {exerciseLogs[CHOOSE i \in found : \A j \in found : i <= j]}

\* The page runs for workout log 1 and shows exercise 1.
PageWorkoutLogId == 1
PageExerciseId == 1

\* What handleSetComplete and saveCurrentSet send for a set: an update of the
\* log the page has fetched for it, or else a new log.
SaveSet(setIndex, completed) ==
  LET setNumber == setIndex + 1
      existingLog == ExistingLog(PageExerciseId, setNumber)
  IN /\ PageWorkoutLogId \in DOMAIN db.workoutLogs
     /\ IF existingLog # {}
        THEN \E log \in existingLog :
               LET data == [reps |-> {8}, completed |-> completed]
               IN Call("updateExerciseLog", log.id, data, updateExerciseLog(db, log.id, data))
        ELSE LET data == [workoutLogId |-> PageWorkoutLogId, exerciseId |-> PageExerciseId,
                          setNumber |-> setNumber, reps |-> {8}, completed |-> completed]
             IN /\ db.idCounter.exerciseLogs <= MaxId
                /\ Call("createExerciseLog", 0, data, createExerciseLog(db, data))

\* handleSetComplete(setIndex): toggle the set's flag and save the set.
HandleSetComplete ==
  \E setIndex \in SetIndexes :
    LET completed == IF exerciseSets[setIndex] = "true" THEN "false" ELSE "true"
    IN /\ exerciseSets' = [exerciseSets EXCEPT ![setIndex] = completed]
       /\ SaveSet(setIndex, completed)
       /\ UNCHANGED exerciseLogs

\* saveCurrentSet(setIndex): save the set as the page shows it.
SaveCurrentSet ==
  \E setIndex \in SetIndexes :
    /\ SaveSet(setIndex, exerciseSets[setIndex])
    /\ UNCHANGED <<exerciseLogs, exerciseSets>>

\* The page's query (re)fetches the exercise logs of the workout log, and the
\* effect that follows sets the flags of the sets from them.
FetchExerciseLogs ==
  \E result \in getExerciseLogs(db, PageWorkoutLogId) :
    /\ result.kind = "value"
    /\ exerciseLogs' = result.val
    /\ exerciseSets' =
         [setIndex \in SetIndexes |->
            LET logs == {i \in DOMAIN result.val :
                           /\ result.val[i].exerciseId = PageExerciseId
                           /\ result.val[i].setNumber = setIndex + 1}
            IN IF logs = {} THEN "false"
               ELSE IF Truthy(result.val[CHOOSE i \in logs : \A j \in logs : i <= j].completed)
                    THEN "true" ELSE "false"]
    /\ Call("getExerciseLogs", PageWorkoutLogId, NoFields, Outcome(db, result))

NextSets ==
  \/ db.idCounter.workoutLogs = 1 /\ CreateWorkoutLog
  \/ HandleSetComplete
  \/ SaveCurrentSet
  \/ FetchExerciseLogs

\* The WorkoutExecution page saving sets of one workout log.
SpecSets == Init /\ [][NextSets]_vars

CreateSetLog ==
  /\ db.idCounter.exerciseLogs <= MaxId
  /\ \E insertLog \in SetLogInputs :
       Called("createExerciseLog", 0, insertLog, createExerciseLog(db, insertLog))

GetExerciseLogs ==
  \E workoutLogId \in {1, 2} :
    \E result \in getExerciseLogs(db, workoutLogId) :
      Called("getExerciseLogs", workoutLogId, NoFields, Outcome(db, result))

NextSetLogs ==
  \/ Room /\ CreateWorkoutLog
  \/ CreateSetLog
  \/ GetExerciseLogs

\* The exercise logs of workout logs: creating and listing them.
SpecSetLogs == Init /\ [][NextSetLogs]_vars

NextCatalog ==
  \/ Room /\ CreateWorkoutProgram
  \/ Room /\ AddUncataloguedExercise
  \/ RemoveExerciseFromWorkout
  \/ GetWorkoutExercises
  \/ GetWorkoutProgramWithExercises
  \/ GetWorkoutProgramWithExercises_Program
  \/ GetWorkoutProgramWithExercises_Exercises

\* Links to exercises in and out of the catalog, and the reads that join
\* the links with the catalog.
SpecCatalog == Init /\ [][NextCatalog]_vars

NextLinks ==
  \/ db.idCounter.workoutPrograms = 1 /\ CreateWorkoutProgram
  \/ AddExerciseAtPosition
  \/ RemoveExerciseFromWorkout
  \/ GetWorkoutExercises

\* The links of a program: adding them at positions, removing and listing
\* them.
SpecLinks == Init /\ [][NextLinks]_vars

-----------------------------------------------------------------------------
(* Measurement history: what getMeasurementsWithChange returns             *)

\* The property that names a measurement's owner in a stored row.
UserKey == IF impl = "SQLiteStorage" THEN "user_id" ELSE "userId"

\* The stored measurements a read of (userId, type) is about.
Matching(d, userId, type) ==
  {m \in Rows(d.measurements) : m[UserKey] = userId /\ (type = {} \/ {m.type} = type)}

ReadHistory == ret.op = "getMeasurementsWithChange"
HistoryOut == ret.res.val
HistoryIn == Matching(db, ret.arg.userId, ret.arg.type)

\* A record without its change.
Stored(r) == [k \in DOMAIN r \ {"change"} |-> r[k]]

\* C1: every returned record that has a strictly older record of its own
\* type carries change = its value minus the value of a next-older record of
\* the SAME type (a record of that type, not newer than it, with no record
\* of the type strictly between the two).
C1_ChangeAgainstNextOlderOfSameType ==
  ReadHistory =>
    \A i \in DOMAIN HistoryOut :
      LET r == HistoryOut[i]
      IN (\E s \in HistoryIn : s.type = r.type /\ s.id # r.id /\ s.date < r.date)
         => \E s \in HistoryIn :
              /\ s.type = r.type /\ s.id # r.id /\ s.date <= r.date
              /\ ~ \E t \in HistoryIn :
                     t.type = r.type /\ s.date < t.date /\ t.date < r.date
              /\ r.change = {r.value - s.value}

\* C2: the oldest record of each type has no change: a record older than
\* every other record of its type (the only one of its type included), and
\* the last record of each type in the output.
C2_OldestOfTypeHasNoChange ==
  ReadHistory =>
    \A i \in DOMAIN HistoryOut :
      LET r == HistoryOut[i]
      IN /\ (\A s \in HistoryIn : s.type = r.type /\ s.id # r.id => s.date > r.date)
              => r.change = {}
         /\ (\A j \in DOMAIN HistoryOut : j > i => HistoryOut[j].type # r.type)
              => r.change = {}

\* C3: the result holds exactly the stored measurements of the user (and of
\* the type, if one is given), each once, each as stored; nothing else.
C3_OneRecordPerMatchingMeasurement ==
  ReadHistory =>
    /\ Len(HistoryOut) = Cardinality(HistoryIn)
    /\ {Stored(HistoryOut[i]) : i \in DOMAIN HistoryOut} = HistoryIn
    /\ \A i, j \in DOMAIN HistoryOut : i # j => HistoryOut[i].id # HistoryOut[j].id
    /\ \A i \in DOMAIN HistoryOut : "change" \in DOMAIN HistoryOut[i]

\* A filtered read that returned two records and left a stored one out.
C3_Witness ==
  /\ ReadHistory
  /\ ret.arg.type # {}
  /\ Len(HistoryOut) >= 2
  /\ \E m \in Rows(db.measurements) : m \notin HistoryIn

\* C1 and C2 restricted to the stores that group by type.
C1_HoldsWhenGrouped == impl # "MemStorage" => C1_ChangeAgainstNextOlderOfSameType
C2_HoldsWhenGrouped == impl # "MemStorage" => C2_OldestOfTypeHasNoChange

-----------------------------------------------------------------------------
(* Partial updates: updateMeasurement, updateWorkoutProgram,               *)
(* updateWorkoutExercise, updateExerciseLog                                *)

UpdateOps ==
  {"updateMeasurement", "updateWorkoutProgram", "updateWorkoutExercise", "updateExerciseLog"}

\* The table each call works on.
TableOf ==
  [updateMeasurement |-> "measurements",
   updateWorkoutProgram |-> "workoutPrograms",
   updateWorkoutExercise |-> "workoutExercises",
   updateExerciseLog |-> "exerciseLogs",
   deleteMeasurement |-> "measurements",
   removeExerciseFromWorkout |-> "workoutExercises",
   deleteProgressPhoto |-> "progressPhotos"]

\* The step is a call of one of the updates: ret' holds its arguments and
\* its result, db the store it ran on, db' the store it left.
Updating == ret'.op \in UpdateOps
Before == db[TableOf[ret'.op]]
After == db'[TableOf[ret'.op]]
UpdatingExisting == Updating /\ ret'.id \in DOMAIN Before
Returned == ret'.res.kind = "value"

\* The property of a stored record that holds the field an update mapping
\* calls k: the SQLite tables name their columns in snake_case, and call
\* the link's sequence position "order".
FieldOf(k) ==
  IF impl # "SQLiteStorage" THEN k
  ELSE CASE k = "userId" -> "user_id"
         [] k = "workoutProgramId" -> "workout_program_id"
         [] k = "exerciseId" -> "exercise_id"
         [] k = "sequence" -> "order"
         [] k = "setNumber" -> "set_number"
         [] k = "workoutLogId" -> "workout_log_id"
         [] OTHER -> k

\* The record an update of `old` with `mapping` is to leave: the mapped
\* fields, the id excepted, at their supplied values, every other field as
\* it was.
Updated(old, mapping) ==
  LET keys == DOMAIN mapping \ {"id"}
  IN [f \in DOMAIN old \cup {FieldOf(k) : k \in keys} |->
        IF \E k \in keys : FieldOf(k) = f
        THEN mapping[CHOOSE k \in keys : FieldOf(k) = f]
        ELSE old[f]]

\* The records an update mapping refers to exist.
MappedReferencesExist ==
  "workoutProgramId" \in DOMAIN ret'.arg => ret'.arg.workoutProgramId \in DOMAIN db.workoutPrograms

\* C4: an update of an existing record whose mapping carries another id
\* returns a record with the original id, and the record stored under the
\* original id still has it.
C4_UpdateNeverChangesId ==
  [][(UpdatingExisting /\ "id" \in DOMAIN ret'.arg /\ ret'.arg.id # ret'.id)
       => /\ Returned
          /\ ret'.res.val.id = ret'.id
          /\ ret'.id \in DOMAIN After
          /\ After[ret'.id].id = ret'.id]_vars

\* C5: an update of an existing record with an empty mapping returns the
\* record as stored and leaves the whole store as it was.
C5_EmptyUpdateIsNoOp ==
  [][(UpdatingExisting /\ DOMAIN ret'.arg = {})
       => /\ Returned
          /\ ret'.res.val = Before[ret'.id]
          /\ db' = db]_vars

\* C6: an update of an existing record (to references that exist) sets
\* exactly the mapped fields to the supplied values, leaves the record's
\* other fields and every other record as they were, and returns the whole
\* updated record.
C6_UpdateChangesExactlyTheMappedFields ==
  [][(UpdatingExisting /\ MappedReferencesExist)
       => LET expected == Updated(Before[ret'.id], ret'.arg)
          IN /\ Returned
             /\ ret'.res.val = expected
             /\ db' = [db EXCEPT ![TableOf[ret'.op]] = With(@, ret'.id, expected)]]_vars

\* C7: an update of an id the table does not hold returns undefined (it does
\* not throw) and leaves the whole store as it was.
C7_UpdateOfMissingIdIsNotFound ==
  [][(Updating /\ ret'.id \notin DOMAIN Before)
       => /\ ret'.res.kind = "undefined"
          /\ db' = db]_vars

\* The claims hold of the updates that supply fields the tables have and no
\* id: every implementation then changes exactly those fields, and reports a
\* missing id as undefined.
PlainUpdate ==
  /\ DOMAIN ret'.arg # {}
  /\ DOMAIN ret'.arg \subseteq {"value", "type", "name", "workoutProgramId", "reps"}

C6_HoldsOfPlainUpdates ==
  [][(UpdatingExisting /\ MappedReferencesExist /\ PlainUpdate)
       => LET expected == Updated(Before[ret'.id], ret'.arg)
          IN /\ Returned
             /\ ret'.res.val = expected
             /\ db' = [db EXCEPT ![TableOf[ret'.op]] = With(@, ret'.id, expected)]]_vars

C7_HoldsOfPlainUpdates ==
  [][(Updating /\ ret'.id \notin DOMAIN Before /\ PlainUpdate)
       => /\ ret'.res.kind = "undefined"
          /\ db' = db]_vars

C5_HoldsWithoutQueryBuilder ==
  [][(impl # "DatabaseStorage" /\ UpdatingExisting /\ DOMAIN ret'.arg = {})
       => /\ Returned
          /\ ret'.res.val = Before[ret'.id]
          /\ db' = db]_vars

C4_HoldsOfSQLiteStorage ==
  [][(impl = "SQLiteStorage" /\ UpdatingExisting
        /\ "id" \in DOMAIN ret'.arg /\ ret'.arg.id # ret'.id)
       => /\ Returned
          /\ ret'.res.val.id = ret'.id
          /\ ret'.id \in DOMAIN After
          /\ After[ret'.id].id = ret'.id]_vars

-----------------------------------------------------------------------------
(* Deletes of one record: deleteMeasurement, removeExerciseFromWorkout,    *)
(* deleteProgressPhoto                                                     *)

DeleteOps == {"deleteMeasurement", "removeExerciseFromWorkout", "deleteProgressPhoto"}

Deleting == ret'.op \in DeleteOps

\* C8: a delete of an id the table holds returns true and leaves the store
\* without that record and otherwise as it was; a delete of an id the table
\* does not hold returns false, does not throw, and leaves the store as it
\* was.
C8_DeleteReportsWhetherItRemoved ==
  [][Deleting
       => IF ret'.id \in DOMAIN Before
          THEN /\ Returned
               /\ ret'.res.val = TRUE
               /\ db' = [db EXCEPT ![TableOf[ret'.op]] = Without(@, ret'.id)]
          ELSE /\ Returned
               /\ ret'.res.val = FALSE
               /\ db' = db]_vars

\* It holds where no foreign key is enforced.
C8_HoldsWithoutForeignKeys ==
  [][(Deleting /\ ~fk)
       => IF ret'.id \in DOMAIN Before
          THEN /\ Returned
               /\ ret'.res.val = TRUE
               /\ db' = [db EXCEPT ![TableOf[ret'.op]] = Without(@, ret'.id)]
          ELSE /\ Returned
               /\ ret'.res.val = FALSE
               /\ db' = db]_vars

-----------------------------------------------------------------------------
(* Workout programs and their links                                        *)

\* C9: when deleteWorkoutProgram(p) has returned, the store holds no link of
\* p; a step of the call leaves the links of every other program as they
\* were.
C9_DeleteWorkoutProgramRemovesItsLinks ==
  [][ret'.op \in {"deleteWorkoutProgram", "deleteWorkoutProgram.await"}
       => \A p \in IdArgs :
            IF p = ret'.id THEN Returned => LinksOf(db', p) = {}
            ELSE LinksOf(db', p) = LinksOf(db, p)]_vars

\* It holds of the stores that run the call without a pause, as long as no
\* update has rewritten a link's id.
C9_HoldsWithoutPauseAndIdRewrite ==
  [][(impl # "DatabaseStorage"
        /\ (\A i \in DOMAIN db.workoutExercises : db.workoutExercises[i].id = i)
        /\ ret'.op = "deleteWorkoutProgram")
       => \A p \in IdArgs :
            IF p = ret'.id THEN Returned => LinksOf(db', p) = {}
            ELSE LinksOf(db', p) = LinksOf(db, p)]_vars

\* C10: every stored link names a program the store holds.
C10_NoOrphanedLinks ==
  \A we \in Rows(db.workoutExercises) : we[ProgramKey] \in DOMAIN db.workoutPrograms

\* It holds where the foreign keys are enforced.
C10_HoldsWithForeignKeys == fk => C10_NoOrphanedLinks

-----------------------------------------------------------------------------
(* Listing the links of a program                                          *)

ListingLinks == ret.op = "getWorkoutExercises"

\* C11: getWorkoutExercises(p) returns the links of program p, each once, in
\* ascending order of the position they were added with.
C11_LinksInOrderOfTheirPosition ==
  ListingLinks
    => /\ ret.res.kind = "value"
       /\ {ret.res.val[i].id : i \in DOMAIN ret.res.val}
            = {we.id : we \in LinksOf(db, ret.id)}
       /\ Len(ret.res.val) = Cardinality(LinksOf(db, ret.id))
       /\ \A i, j \in DOMAIN ret.res.val :
            i < j => createdWith[ret.res.val[i].id] <= createdWith[ret.res.val[j].id]

\* A link at position 3 was added to a program with links at 1 and 2 and the
\* links were listed.
C11_Witness ==
  /\ ListingLinks
  /\ ret.res.kind = "value"
  /\ Len(ret.res.val) = 3
  /\ {createdWith[ret.res.val[i].id] : i \in DOMAIN ret.res.val} = {1, 2, 3}
  /\ createdWith[Max({ret.res.val[i].id : i \in DOMAIN ret.res.val})] = 3

\* The listing is in order where the links were added in ascending position
\* and the array is left in insertion order or sorted on a column that holds
\* one value.
C11_HoldsWhenAddedInOrder ==
  (/\ ListingLinks
   /\ impl = "MemStorage"
   /\ \A a, b \in DOMAIN createdWith : a < b => createdWith[a] <= createdWith[b])
    => /\ ret.res.kind = "value"
       /\ \A i, j \in DOMAIN ret.res.val :
            i < j => createdWith[ret.res.val[i].id] <= createdWith[ret.res.val[j].id]

-----------------------------------------------------------------------------
(* Workout logs: in progress, then completed                               *)

\* The log is in the completed state.
IsCompleted(log) == "completed" \in DOMAIN log /\ Truthy(log.completed)

\* The log is in progress, its flag the boolean false.
IsInProgress(log) == "completed" \in DOMAIN log /\ log.completed = "false"

\* C12: a workout log that is completed is still stored and completed after
\* every call.
C12_CompletedStaysCompleted ==
  [][\A id \in DOMAIN db.workoutLogs :
       IsCompleted(db.workoutLogs[id])
         => id \in DOMAIN db'.workoutLogs /\ IsCompleted(db'.workoutLogs[id])]_vars

\* A log was completed and calls ran on it afterwards: a second complete, or
\* the delete of its program.
C12_Witness ==
  /\ ret.op \in {"completeWorkoutLog", "deleteWorkoutProgram"}
  /\ ret.res.kind = "value"
  /\ \E id \in DOMAIN db.workoutLogs :
       /\ IsCompleted(db.workoutLogs[id])
       /\ ret.op = "completeWorkoutLog" => ret.id # id
       /\ ret.op = "deleteWorkoutProgram" => ret.res.val = TRUE

\* C13: a log that createWorkoutLog has just stored is in progress, with the
\* boolean false for its flag, and a log is completed after a call only if
\* it was completed before it or the call is completeWorkoutLog on its id.
C13_StartsInProgressAndOnlyCompleteCompletes ==
  [][/\ (ret'.op = "createWorkoutLog" /\ ret'.res.kind = "value")
         => /\ ret'.res.val.id \in DOMAIN db'.workoutLogs
            /\ IsInProgress(db'.workoutLogs[ret'.res.val.id])
            /\ IsInProgress(ret'.res.val)
     /\ \A id \in DOMAIN db'.workoutLogs :
          IsCompleted(db'.workoutLogs[id])
            => \/ id \in DOMAIN db.workoutLogs /\ IsCompleted(db.workoutLogs[id])
               \/ ret'.op = "completeWorkoutLog" /\ ret'.id = id]_vars

\* It holds of the logs created without a flag in the input, apart from the
\* flag's representation: such a log is not completed until completeWorkoutLog
\* is called on its id.
C13_HoldsWithoutFlagInTheInput ==
  [][(ret'.op = "createWorkoutLog" => "completed" \notin DOMAIN ret'.arg)
       => /\ (ret'.op = "createWorkoutLog" /\ ret'.res.kind = "value")
              => ~IsCompleted(db'.workoutLogs[ret'.res.val.id])
          /\ \A id \in DOMAIN db'.workoutLogs :
               IsCompleted(db'.workoutLogs[id])
                 => \/ id \in DOMAIN db.workoutLogs /\ IsCompleted(db.workoutLogs[id])
                    \/ ret'.op = "completeWorkoutLog" /\ ret'.id = id]_vars

-----------------------------------------------------------------------------
(* Identifiers                                                             *)

\* The table each create adds to.
CreatesIn ==
  [createMeasurement |-> "measurements",
   createProgressPhoto |-> "progressPhotos",
   createWorkoutProgram |-> "workoutPrograms",
   addExerciseToWorkout |-> "workoutExercises",
   createWorkoutLog |-> "workoutLogs",
   createExerciseLog |-> "exerciseLogs"]

Creating == ret'.op \in DOMAIN CreatesIn /\ ret'.res.kind = "value"

\* Every stored record of d is stored under its own id.
StoredUnderOwnId(d) ==
  \A op \in DOMAIN CreatesIn :
    \A k \in DOMAIN d[CreatesIn[op]] : d[CreatesIn[op]][k].id = k

\* A create that returns has given its record an id the table does not hold
\* and that the table's counter has not handed out, and the record is stored
\* under it.
CreatedUnderFreshId ==
  Creating
    => LET t == CreatesIn[ret'.op]
           id == ret'.res.val.id
       IN /\ id \notin DOMAIN db[t]
          /\ id >= db.idCounter[t]
          /\ db'.idCounter[t] > id
          /\ id \in DOMAIN db'[t]
          /\ db'[t][id] = ret'.res.val

\* C14: every create stores its record under an id that is new to the table
\* and was never handed out before, and after every call each stored record's
\* id is the id it is stored under.
C14_FreshIdsAndRecordsUnderTheirId ==
  [][CreatedUnderFreshId /\ StoredUnderOwnId(db')]_vars

\* It holds as long as no update mapping carries an id.
C14_HoldsWithoutIdInUpdates ==
  [][(StoredUnderOwnId(db) /\ (ret'.op \in UpdateOps => "id" \notin DOMAIN ret'.arg))
       => CreatedUnderFreshId /\ StoredUnderOwnId(db')]_vars

-----------------------------------------------------------------------------
(* The in-memory and the SQL-backed storage side by side                   *)

\* What a history read shows: each returned id with its change.
Changes(result) == {<<result[i].id, result[i].change>> : i \in DOMAIN result}

ReadOnBoth == ret.op = "both.getMeasurementsWithChange"

\* C15: after the same calls, getMeasurementsWithChange returns the same ids
\* with the same changes from the in-memory and from the SQL-backed storage.
C15_SameHistoryFromBothStorages ==
  ReadOnBoth => Changes(ret.res.val) = Changes(ret.sqlRes.val)

\* The two agree on the reads that name a type, as long as the dates of the
\* measurements read differ and no update mapping has carried an id.
C15_HoldsOfOneTypeAtDistinctDates ==
  (/\ ReadOnBoth
   /\ ret.arg.type # {}
   /\ StoredUnderOwnId(db)
   /\ \A m, n \in Rows(db.measurements) : m # n => m.date # n.date)
    => Changes(ret.res.val) = Changes(ret.sqlRes.val)

-----------------------------------------------------------------------------
(* Reading a program with its links while it is written                    *)

ReadProgram == ret.op = "getWorkoutProgramWithExercises"

\* The ids of the links a read returned.
ReturnedLinkIds == {ret.res.val.exercises[i].id : i \in DOMAIN ret.res.val.exercises}

\* C16: a getWorkoutProgramWithExercises(p) that returns the program returns
\* it with the links the store held for it in some state between the read's
\* start and its return in which no delete had removed the links and not yet
\* the program.
C16_ReadSeesNoHalfDeletedProgram ==
  (ReadProgram /\ ret.res.kind = "value") => ReturnedLinkIds \in ret.seen

\* The reads of MemStorage and SQLiteStorage, where no call pauses, return
\* the program as the store holds it.
C16_HoldsWithoutPause ==
  (ReadProgram /\ ret.res.kind = "value" /\ impl # "DatabaseStorage")
    => ReturnedLinkIds \in ret.seen

-----------------------------------------------------------------------------
(* Updates of one link by several writers                                  *)

\* An updateWorkoutExercise on a stored link was applied.
LinkUpdateApplied ==
  /\ ret'.op = "updateWorkoutExercise"
  /\ ret'.id \in DOMAIN db.workoutExercises
  /\ ret'.res.kind = "value"

\* C17: every applied updateWorkoutExercise leaves each field it supplies (the
\* id apart) at the value it supplies and every other field of the link, and
\* every other link, as the store held it when the update ran; so after any
\* interleaving of updates each field has the value of the last update that
\* supplied it.
C17_LastWriteWinsPerField ==
  [][LinkUpdateApplied
       => LET old == db.workoutExercises[ret'.id]
              new == ret'.res.val
              supplied == DOMAIN ret'.arg \ {"id"}
          IN /\ new \in Rows(db'.workoutExercises)
             /\ \A k \in supplied :
                  FieldOf(k) \in DOMAIN new /\ new[FieldOf(k)] = ret'.arg[k]
             /\ \A f \in DOMAIN old \ ({"id"} \cup {FieldOf(k) : k \in supplied}) :
                  f \in DOMAIN new /\ new[f] = old[f]
             /\ \A j \in DOMAIN db.workoutExercises \ {ret'.id} :
                  /\ j \in DOMAIN db'.workoutExercises
                  /\ db'.workoutExercises[j] = db.workoutExercises[j]]_vars

\* Two updates of one link that supply different fields were applied one
\* after the other: the link was moved to program 2 after its position had
\* been set to 2, and has both.
C17_Witness ==
  /\ ret.op = "updateWorkoutExercise"
  /\ ret.res.kind = "value"
  /\ DOMAIN ret.arg = {"workoutProgramId"}
  /\ "sequence" \in DOMAIN ret.res.val
  /\ ret.res.val.sequence = 2
  /\ ret.res.val.workoutProgramId = 2
  /\ ret.res.val \in Rows(db.workoutExercises)

-----------------------------------------------------------------------------
(* The order of the measurement history                                    *)

\* C18: the result of getMeasurementsWithChange is ordered newest first
\* overall: of every two adjacent records of the output, whatever their
\* types, each has a timestamp and the earlier one's is greater than or equal
\* to the later one's.
C18_NewestFirstOverall ==
  ReadHistory =>
    \A i \in 1..(Len(HistoryOut) - 1) :
      /\ "date" \in DOMAIN HistoryOut[i]
      /\ "date" \in DOMAIN HistoryOut[i + 1]
      /\ HistoryOut[i].date >= HistoryOut[i + 1].date

\* C18 when every stored measurement has a date.
C18_HoldsWhenEveryDateIsStored ==
  (\A m \in Rows(db.measurements) : "date" \in DOMAIN m) => C18_NewestFirstOverall

-----------------------------------------------------------------------------
(* List reads: getMeasurements, getProgressPhotos                          *)

\* The stored photos a read of (userId, category) is about.
MatchingPhotos(d, userId, category) ==
  {photo \in Rows(d.progressPhotos) :
     /\ photo[UserKey] = userId
     /\ category = {} \/ ("category" \in DOMAIN photo /\ photo.category = category)}

ListRead == ret.op \in {"getMeasurements", "getProgressPhotos"}

\* The stored records the list read is about.
Listed ==
  IF ret.op = "getMeasurements" THEN Matching(db, ret.arg.userId, ret.arg.type)
  ELSE MatchingPhotos(db, ret.arg.userId, ret.arg.category)

\* C19: getMeasurements(userId, type) and getProgressPhotos(userId, category)
\* return, without error, all and only the stored records of the user (of the
\* type or category, when one is given), each once and as stored: an empty
\* collection when nothing matches.
C19_ListsExactlyTheMatchingRecords ==
  ListRead =>
    /\ ret.res.kind = "value"
    /\ Range(ret.res.val) = Listed
    /\ Len(ret.res.val) = Cardinality(Listed)

\* A filtered read that returned a record and left stored ones out: one of
\* another user, or of another type or category.
C19_Witness ==
  /\ ListRead
  /\ ret.res.kind = "value"
  /\ Len(ret.res.val) >= 1
  /\ \/ ret.op = "getMeasurements" /\ ret.arg.type # {}
        /\ \E m \in Rows(db.measurements) : m \notin Listed
     \/ ret.op = "getProgressPhotos" /\ ret.arg.category # {}
        /\ \E photo \in Rows(db.progressPhotos) : photo \notin Listed

-----------------------------------------------------------------------------
(* Looking a program up with its links                                     *)

\* A getWorkoutProgramWithExercises returns in this step.
ProgramReadReturns == ret'.op = "getWorkoutProgramWithExercises"

\* The program the returning call found under its id when it looked it up:
\* DatabaseStorage looked it up before its pause.
FoundProgram ==
  IF reads \ reads' # {} THEN {r.program : r \in reads \ reads'}
  ELSE IF ret'.id \in DOMAIN db.workoutPrograms THEN {db.workoutPrograms[ret'.id]}
  ELSE {}

\* The array `exercises` holds the stored links of program id, each once and
\* no other, every one under that workoutProgramId.
ReturnedLinksAreThoseOf(exercises, id) ==
  /\ {e.id : e \in Range(exercises)} = LinkIdsOf(db, id)
  /\ Len(exercises) = Cardinality(LinkIdsOf(db, id))
  /\ \A e \in Range(exercises) : e.workoutProgramId = id

\* C20: getWorkoutProgramWithExercises(id) returns undefined, and throws
\* nothing, when it finds no program under id; when it finds one it returns
\* the program's own fields together with exactly the stored links of that
\* program, each once.
C20_AbsentOrProgramWithItsLinks ==
  [][ProgramReadReturns
       => IF FoundProgram = {} THEN ret'.res.kind = "undefined"
          ELSE /\ ret'.res.kind = "value"
               /\ \A program \in FoundProgram :
                    /\ DOMAIN ret'.res.val = DOMAIN program \cup {"exercises"}
                    /\ \A k \in DOMAIN program : ret'.res.val[k] = program[k]
               /\ ReturnedLinksAreThoseOf(ret'.res.val.exercises, ret'.id)]_vars

\* C20 whenever the call returns without throwing, as it always does in
\* MemStorage and SQLiteStorage.
C20_HoldsUnlessTheLinkQueryThrows ==
  [][(ProgramReadReturns /\ ret'.res.kind # "throw")
       => IF FoundProgram = {} THEN ret'.res.kind = "undefined"
          ELSE /\ \A program \in FoundProgram :
                    /\ DOMAIN ret'.res.val = DOMAIN program \cup {"exercises"}
                    /\ \A k \in DOMAIN program : ret'.res.val[k] = program[k]
               /\ ReturnedLinksAreThoseOf(ret'.res.val.exercises, ret'.id)]_vars

-----------------------------------------------------------------------------
(* Links to an exercise the catalog does not hold                          *)

\* The property that names a link's exercise in a stored link.
ExerciseKey == IF impl = "SQLiteStorage" THEN "exercise_id" ELSE "exerciseId"

\* The links of program p whose exercise is not in the catalog.
DanglingLinksOf(d, p) == {we \in LinksOf(d, p) : we[ExerciseKey] \notin d.exercises}

\* A read of the links of a program returned while the program had a link
\* to an exercise outside the catalog.
ReadOverDanglingLink ==
  /\ ret.op \in {"getWorkoutExercises", "getWorkoutProgramWithExercises"}
  /\ ret.op = "getWorkoutProgramWithExercises" => ret.id \in DOMAIN db.workoutPrograms
  /\ DanglingLinksOf(db, ret.id) # {}

\* C21: getWorkoutExercises and getWorkoutProgramWithExercises of a program
\* that has a link to an exercise missing from the catalog throw; they return
\* no result.
C21_DanglingLinkIsAnError == ReadOverDanglingLink => ret.res.kind = "throw"

\* C21 in MemStorage, which looks every link's exercise up.
C21_HoldsInMemStorage == impl = "MemStorage" => C21_DanglingLinkIsAnError

-----------------------------------------------------------------------------
(* Positions of the links of a program                                     *)

\* The property that holds a stored link's position: SQLiteStorage keeps it
\* in the "order" column.
PositionKey == IF impl = "SQLiteStorage" THEN "order" ELSE "sequence"

\* C22: no two links of one program have the same sequence position.
C22_PositionsUniqueWithinProgram ==
  \A a, b \in Rows(db.workoutExercises) :
    (a.id # b.id /\ a[ProgramKey] = b[ProgramKey]) => a[PositionKey] # b[PositionKey]

-----------------------------------------------------------------------------
(* Exercise logs: one per set                                              *)

\* C23: at most one exercise log exists for a workout log, exercise and set
\* number, and every set number is at least 1.
C23_OneLogPerSet ==
  /\ \A a, b \in Rows(db.exerciseLogs) :
       a.id # b.id =>
         \/ a[FieldOf("workoutLogId")] # b[FieldOf("workoutLogId")]
         \/ a[FieldOf("exerciseId")] # b[FieldOf("exerciseId")]
         \/ a[FieldOf("setNumber")] # b[FieldOf("setNumber")]
  /\ \A a \in Rows(db.exerciseLogs) : a[FieldOf("setNumber")] >= 1

\* C23 for a page that has fetched every stored log of its workout log.
C23_HoldsWhenSavedAfterRefetch ==
  [][({log.id : log \in Range(exerciseLogs)} = DOMAIN db.exerciseLogs /\ C23_OneLogPerSet)
       => C23_OneLogPerSet']_vars

-----------------------------------------------------------------------------
(* Listing the exercise logs of a workout log                              *)

\* The keys under which the exercise logs of workout log l are stored, and
\* those logs.
SetLogKeysOf(d, l) ==
  {k \in DOMAIN d.exerciseLogs : d.exerciseLogs[k][FieldOf("workoutLogId")] = l}
SetLogsOf(d, l) == {d.exerciseLogs[k] : k \in SetLogKeysOf(d, l)}

\* A getExerciseLogs returned an array.
ListedSetLogs == ret.op = "getExerciseLogs" /\ ret.res.kind = "value"

\* C24: what getExerciseLogs(workoutLogId) returns is exactly the stored
\* exercise logs of that workout log, each once, each with its exercise
\* attached, in ascending order of set number.
C24_ExactlyTheLogsBySetNumber ==
  ListedSetLogs =>
    LET logs == ret.res.val
    IN /\ {logs[i].id : i \in DOMAIN logs} = {log.id : log \in SetLogsOf(db, ret.id)}
       /\ Len(logs) = Cardinality(SetLogKeysOf(db, ret.id))
       /\ \A i \in DOMAIN logs :
            /\ logs[i].workoutLogId = ret.id
            /\ logs[i].exercise = logs[i].exerciseId
            /\ logs[i].exercise \in db.exercises
       /\ \A i, j \in DOMAIN logs : i < j => logs[i].setNumber <= logs[j].setNumber

\* C24 when every log of the workout log is of an exercise in the catalog.
C24_HoldsWhenEveryExerciseIsInTheCatalog ==
  (ListedSetLogs
     /\ \A log \in SetLogsOf(db, ret.id) : log[FieldOf("exerciseId")] \in db.exercises)
    => C24_ExactlyTheLogsBySetNumber

-----------------------------------------------------------------------------
(* Photos of a deleted measurement                                         *)

\* The property that names a photo's measurement in a stored photo.
RelatedMeasurementKey ==
  IF impl = "SQLiteStorage" THEN "related_measurement_id" ELSE "relatedMeasurementId"

\* The stored photos that refer to a measurement the store does not hold.
PhotosOfMissingMeasurement(d) ==
  {p \in DOMAIN d.progressPhotos :
     \E measurementId \in d.progressPhotos[p][RelatedMeasurementKey] :
       measurementId \notin DOMAIN d.measurements}

\* C25: a deleteMeasurement call leaves every stored photo as it was, those of
\* the deleted measurement included; getProgressPhoto of a stored photo
\* returns it as stored and getProgressPhotos returns the stored photos of the
\* user, without error, whether or not their measurement still exists.
C25_DeleteMeasurementLeavesPhotos ==
  [][/\ ret'.op = "deleteMeasurement" => db'.progressPhotos = db.progressPhotos
     /\ (ret'.op = "getProgressPhoto" /\ ret'.id \in DOMAIN db.progressPhotos)
          => ret'.res = Value(db.progressPhotos[ret'.id])
     /\ ret'.op = "getProgressPhotos"
          => /\ ret'.res.kind = "value"
             /\ Range(ret'.res.val)
                  = MatchingPhotos(db, ret'.arg.userId, ret'.arg.category)]_vars

\* A photo read back after its measurement was created and deleted.
C25_Witness ==
  /\ ret.op = "getProgressPhoto"
  /\ ret.res.kind = "value"
  /\ ret.id \in PhotosOfMissingMeasurement(db)
  /\ ret.res.val[RelatedMeasurementKey] = {1}
  /\ db.idCounter.measurements > 1

-----------------------------------------------------------------------------
(* The field-name mapper                                                   *)

\* C26: toSnakeCase applied to a key it returned returns that key again, and a
\* key without an upper-case letter is returned as it is.
C26_ToSnakeCaseIdempotent ==
  ret.op \in {"toSnakeCase", "toSnakeCase.again"}
    => /\ ret.op = "toSnakeCase.again" => ret.res.val = ret.arg
       /\ toSnakeCase(ret.res.val) = ret.res.val
       /\ (\A i \in DOMAIN ret.arg : ~IsUpper(ret.arg[i])) => ret.res.val = ret.arg

\* The mapper applied again to a key in which it had replaced a capital.
C26_Witness ==
  /\ ret.op = "toSnakeCase.again"
  /\ ret.arg = <<"a", "_", "i", "d">>
  /\ ret.res.val = ret.arg

-----------------------------------------------------------------------------
(* Ids no record can have                                                  *)

\* C27: the store holds no measurement of a negative owner id and no link of
\* a negative program id or exercise id: a create or link call given one
\* stores nothing.
C27_NoNegativeIdStored ==
  /\ \A measurement \in Rows(db.measurements) : measurement[UserKey] >= 0
  /\ \A we \in Rows(db.workoutExercises) : we[ProgramKey] >= 0 /\ we[ExerciseKey] >= 0

\* Enforced foreign keys refuse the links, whose program and exercise must
\* exist.
C27_LinksHoldWithForeignKeys ==
  fk => \A we \in Rows(db.workoutExercises) : we[ProgramKey] >= 0 /\ we[ExerciseKey] >= 0

-----------------------------------------------------------------------------
(* deleteWorkoutProgram of a program that does not exist                   *)

\* A step of deleteWorkoutProgram(id) taken while the store holds no program
\* id.
DeletingMissingProgram ==
  /\ ret'.op \in {"deleteWorkoutProgram", "deleteWorkoutProgram.await"}
  /\ ret'.id \notin DOMAIN db.workoutPrograms

\* C28: deleteWorkoutProgram(id) of an id the store holds no program of
\* leaves the store as it was, the links whose workoutProgramId is id
\* included, and returns false.
C28_DeleteOfMissingProgramChangesNothing ==
  [][DeletingMissingProgram
       => /\ db' = db
          /\ ret'.op = "deleteWorkoutProgram" => ret'.res = Value(FALSE)]_vars

\* It holds when no link names the id.
C28_HoldsWhenNoLinkNamesTheId ==
  [][(DeletingMissingProgram /\ LinksOf(db, ret'.id) = {})
       => /\ db' = db
          /\ ret'.op = "deleteWorkoutProgram" => ret'.res = Value(FALSE)]_vars

-----------------------------------------------------------------------------
(* PUT /api/measurements/:id                                               *)

\* The handler answers in this step.
PutAnswers == ret'.op = "PUT /api/measurements/:id"

\* C29: when PUT /api/measurements/:id answers and the store held no
\* measurement of the id as the handler came to its update, the answer is
\* 404; the handler never answers 200 without a body.
C29_PutOfMissingMeasurementIs404 ==
  [][PutAnswers
       => /\ ret'.id \notin DOMAIN db.measurements => ret'.res.status = 404
          /\ ~(ret'.res.status = 200 /\ ret'.res.body = Undefined)]_vars

\* It holds where the handler runs from its check to its answer without a
\* pause.
C29_HoldsWithoutPause ==
  [][(PutAnswers /\ impl # "DatabaseStorage")
       => /\ ret'.id \notin DOMAIN db.measurements => ret'.res.status = 404
          /\ ~(ret'.res.status = 200 /\ ret'.res.body = Undefined)]_vars

-----------------------------------------------------------------------------
(* completeWorkoutLog                                                      *)

\* A completeWorkoutLog returns in this step.
Completing == ret'.op = "completeWorkoutLog"

\* C30: completeWorkoutLog(id) of a stored log returns the log as it is then
\* stored: completed, its other fields as they were; every other workout log
\* and every other table is as it was, and the same call made again returns
\* the same record and changes nothing.  For an id the store holds no log of,
\* it returns undefined and leaves the store as it was.
C30_CompleteSetsOnlyTheFlag ==
  [][Completing
       => IF ret'.id \in DOMAIN db.workoutLogs
          THEN LET old == db.workoutLogs[ret'.id]
                   new == db'.workoutLogs[ret'.id]
               IN /\ Returned
                  /\ ret'.res.val = new
                  /\ IsCompleted(new)
                  /\ DOMAIN new = DOMAIN old \cup {"completed"}
                  /\ \A k \in DOMAIN old \ {"completed"} : new[k] = old[k]
                  /\ db' = [db EXCEPT !.workoutLogs = With(@, ret'.id, new)]
                  /\ completeWorkoutLog(db', ret'.id) = Outcome(db', ret'.res)
          ELSE /\ ret'.res = Undefined
               /\ db' = db]_vars

\* A log completed while the store holds another record besides it: a second
\* workout log or an exercise log.
C30_Witness ==
  /\ ret.op = "completeWorkoutLog"
  /\ ret.res.kind = "value"
  /\ ret.id \in DOMAIN db.workoutLogs
  /\ IsCompleted(db.workoutLogs[ret.id])
  /\ \/ DOMAIN db.exerciseLogs # {}
     \/ \E other \in DOMAIN db.workoutLogs : other # ret.id

====
